---------------------------- MODULE Spec2Model ----------------------------
(***************************************************************************)
(* Model of the diff-to-table renderer of src/src/utils/formatters.js:     *)
(* formatDiffForTable (classification of the patch lines, block            *)
(* highlighting, table assembly) and splitHighlightedHtml (the tag-aware   *)
(* line splitter).                                                         *)
(*                                                                         *)
(* A JavaScript string is a sequence of one-character strings, so that     *)
(* split, join, startsWith, slice, the two regular expressions and the     *)
(* HTML escaping are computed character by character.                      *)
(***************************************************************************)
EXTENDS Integers, Sequences, FiniteSets, TLC

\* ------------------------------------------------------------------------
\* Bounds
\* ------------------------------------------------------------------------

\* Longest patch, in physical lines, drawn from PatchLines.
MaxLines == 3

\* Longest blob, in pieces drawn from BlobPieces, given to the splitter alone.
MaxPieces == 4

\* ------------------------------------------------------------------------
\* Strings
\* ------------------------------------------------------------------------

NL == "\n"

Digits == <<"0", "1", "2", "3", "4", "5", "6", "7", "8", "9">>

IsDigit(c) == \E d \in 1..10 : Digits[d] = c

DigitValue(c) == (CHOOSE d \in 1..10 : Digits[d] = c) - 1

\* s.startsWith(lit) / the literal lit found at (1-based) position p of s
HasAt(s, p, lit) ==
    /\ p >= 1
    /\ p + Len(lit) - 1 <= Len(s)
    /\ \A k \in 1..Len(lit) : s[p + k - 1] = lit[k]

StartsWith(s, lit) == HasAt(s, 1, lit)

\* s.slice(1)
Slice1(s) == SubSeq(s, 2, Len(s))

\* number of consecutive digits of s from position p on (\d* , greedy)
RECURSIVE DigitRun(_, _)
DigitRun(s, p) ==
    IF p <= Len(s) /\ IsDigit(s[p]) THEN 1 + DigitRun(s, p + 1) ELSE 0

\* patch.split("\n")
RECURSIVE SplitFrom(_, _, _)
SplitFrom(s, p, cur) ==
    IF p > Len(s) THEN <<cur>>
    ELSE IF s[p] = NL THEN <<cur>> \o SplitFrom(s, p + 1, <<>>)
    ELSE SplitFrom(s, p + 1, Append(cur, s[p]))

SplitLines(s) == SplitFrom(s, 1, <<>>)

\* codeLines.join("\n")
RECURSIVE JoinLines(_)
JoinLines(ls) ==
    IF Len(ls) = 0 THEN <<>>
    ELSE IF Len(ls) = 1 THEN ls[1]
    ELSE ls[1] \o <<NL>> \o JoinLines(Tail(ls))

\* concatenation of a sequence of strings, no separator
RECURSIVE Concat(_)
Concat(ls) == IF Len(ls) = 0 THEN <<>> ELSE ls[1] \o Concat(Tail(ls))

\* parseInt(digits, 10)
RECURSIVE ParseInt(_)
ParseInt(ds) ==
    IF Len(ds) = 0 THEN 0
    ELSE 10 * ParseInt(SubSeq(ds, 1, Len(ds) - 1)) + DigitValue(ds[Len(ds)])

\* `${n}` for a number n >= 0: its decimal digits
RECURSIVE NumberToString(_)
NumberToString(n) ==
    IF n < 10 THEN <<Digits[n + 1]>>
    ELSE NumberToString(n \div 10) \o <<Digits[(n % 10) + 1]>>

\* A value held in lineNumbers: a number, or the empty string "".
JSNum(n) == [t |-> "number", v |-> n]
JSEmpty == [t |-> "string", v |-> 0]

\* `${value}` in a template literal
Interpolate(x) == IF x.t = "number" THEN NumberToString(x.v) ELSE <<>>

\* ------------------------------------------------------------------------
\* escapeHtml
\* ------------------------------------------------------------------------

htmlEscapeMap(c) ==
    CASE c = "&" -> <<"&", "a", "m", "p", ";">>
      [] c = "<" -> <<"&", "l", "t", ";">>
      [] c = ">" -> <<"&", "g", "t", ";">>
      [] c = "\"" -> <<"&", "q", "u", "o", "t", ";">>
      [] c = "'" -> <<"&", "#", "3", "9", ";">>
      [] OTHER -> <<c>>

RECURSIVE escapeHtml(_)
escapeHtml(text) ==
    IF Len(text) = 0 THEN <<>>
    ELSE htmlEscapeMap(text[1]) \o escapeHtml(Tail(text))

\* ------------------------------------------------------------------------
\* Hunk headers: line.match(/@@ -(\d+),?\d* \+(\d+),?\d* @@/)
\* ------------------------------------------------------------------------

HunkPrefix == <<"@", "@">>
HunkOpen == <<"@", "@", " ", "-">>
HunkMid == <<" ", "+">>
HunkClose == <<" ", "@", "@">>
FileAdd == <<"+", "+", "+">>
FileRemove == <<"-", "-", "-">>

\* The match of the pattern that begins at position p, as the positions of its
\* two groups; the greedy \d+ takes the whole digit run, and no shorter choice
\* of it (nor leaving out an available comma) can match where that one fails.
HunkMatchAt(s, p) ==
    LET a1 == p + Len(HunkOpen)
        n1 == DigitRun(s, a1)
        c1 == IF HasAt(s, a1 + n1, <<",">>) THEN a1 + n1 + 1 ELSE a1 + n1
        e1 == c1 + DigitRun(s, c1)
        a2 == e1 + Len(HunkMid)
        n2 == DigitRun(s, a2)
        c2 == IF HasAt(s, a2 + n2, <<",">>) THEN a2 + n2 + 1 ELSE a2 + n2
        e2 == c2 + DigitRun(s, c2)
    IN  [ok |-> /\ HasAt(s, p, HunkOpen)
                /\ n1 >= 1
                /\ HasAt(s, e1, HunkMid)
                /\ n2 >= 1
                /\ HasAt(s, e2, HunkClose),
         g1 |-> SubSeq(s, a1, a1 + n1 - 1),
         g2 |-> SubSeq(s, a2, a2 + n2 - 1)]

\* The pattern is not anchored: the leftmost match counts.
HunkMatches(s) == \E p \in 1..Len(s) : HunkMatchAt(s, p).ok

HunkMatch(s) ==
    LET p == CHOOSE q \in 1..Len(s) :
                 /\ HunkMatchAt(s, q).ok
                 /\ \A r \in 1..(q - 1) : ~HunkMatchAt(s, r).ok
    IN  HunkMatchAt(s, p)


\* ------------------------------------------------------------------------
\* splitHighlightedHtml
\* ------------------------------------------------------------------------

SpanWord == <<"s", "p", "a", "n">>
SpanOpen == <<"<", "s", "p", "a", "n", " ", "c", ">">>
SpanClose == <<"<", "/", "s", "p", "a", "n", ">">>

\* html.slice(i).match(/^<(\/?span[^>]*)>/): length of the matched tag, 0 when
\* there is no match ([^>]* also runs over newlines).
TagLen(html, i) ==
    LET j == IF HasAt(html, i + 1, <<"/">>) THEN i + 2 ELSE i + 1
        ends == {k \in (j + Len(SpanWord))..Len(html) : html[k] = ">"}
    IN  IF /\ HasAt(html, i, <<"<">>)
           /\ HasAt(html, j, SpanWord)
           /\ ends # {}
        THEN (CHOOSE k \in ends : \A m \in ends : k <= m) - i + 1
        ELSE 0

\* tagContent.startsWith("/")
IsClosingTag(html, i) == HasAt(html, i + 1, <<"/">>)

\* The locals of one call: html, i (1-based here), currentLine, tagStack, lines.
SplitFrame(html) ==
    [html |-> html, i |-> 1, currentLine |-> <<>>, tagStack |-> <<>>,
     lines |-> <<>>]

\* one "</span>" per entry of the tag stack
ClosingTags(tagStack) == Concat([j \in 1..Len(tagStack) |-> SpanClose])

\* SplitNewline reopening the innermost tag first
SplitNewlineReopeningInnermostFirst(f) ==
    [f EXCEPT !.lines = Append(@, f.currentLine \o ClosingTags(f.tagStack)),
              !.currentLine =
                  Concat([j \in 1..Len(f.tagStack) |->
                             f.tagStack[Len(f.tagStack) + 1 - j]]),
              !.i = @ + 1]

\* char === "\n"
SplitNewline(f) ==
    [f EXCEPT !.lines = Append(@, f.currentLine \o ClosingTags(f.tagStack)),
              !.currentLine = Concat(f.tagStack),
              !.i = @ + 1]

\* SplitTag without the pop at a closing tag
SplitTagNotPopping(f) ==
    LET n == TagLen(f.html, f.i)
        fullTag == SubSeq(f.html, f.i, f.i + n - 1)
    IN  [f EXCEPT !.currentLine = @ \o fullTag,
                  !.tagStack = IF IsClosingTag(f.html, f.i)
                               THEN @
                               ELSE Append(@, fullTag),
                  !.i = @ + n]

\* SplitTag leaving out a closing tag met while the stack is empty
SplitTagDroppingStrayClose(f) ==
    LET n == TagLen(f.html, f.i)
        fullTag == SubSeq(f.html, f.i, f.i + n - 1)
    IN  [f EXCEPT !.currentLine = IF /\ IsClosingTag(f.html, f.i)
                                     /\ Len(f.tagStack) = 0
                                  THEN @
                                  ELSE @ \o fullTag,
                  !.tagStack = IF IsClosingTag(f.html, f.i)
                               THEN (IF Len(@) = 0 THEN @
                                     ELSE SubSeq(@, 1, Len(@) - 1))
                               ELSE Append(@, fullTag),
                  !.i = @ + n]

\* char === "<" and the tag pattern matches
SplitTag(f) ==
    LET n == TagLen(f.html, f.i)
        fullTag == SubSeq(f.html, f.i, f.i + n - 1)
    IN  [f EXCEPT !.currentLine = @ \o fullTag,
                  !.tagStack = IF IsClosingTag(f.html, f.i)
                               THEN (IF Len(@) = 0 THEN @
                                     ELSE SubSeq(@, 1, Len(@) - 1))
                               ELSE Append(@, fullTag),
                  !.i = @ + n]

\* SplitChar leaving out a "<"
SplitCharDroppingLessThan(f) ==
    [f EXCEPT !.currentLine = IF f.html[f.i] = "<" THEN @
                              ELSE Append(@, f.html[f.i]),
              !.i = @ + 1]

\* any other character, a "<" that begins no tag included
SplitChar(f) ==
    [f EXCEPT !.currentLine = Append(@, f.html[f.i]), !.i = @ + 1]

AtNewline(f) == f.i <= Len(f.html) /\ f.html[f.i] = NL
AtTag(f) == f.i <= Len(f.html) /\ f.html[f.i] = "<" /\ TagLen(f.html, f.i) > 0
AtChar(f) == f.i <= Len(f.html) /\ ~AtNewline(f) /\ ~AtTag(f)

\* one iteration of the while loop
SplitStep(f) ==
    IF AtNewline(f) THEN SplitNewline(f)
    ELSE IF AtTag(f) THEN SplitTag(f)
    ELSE SplitChar(f)

\* SplitReturn without the push of the last line
SplitReturnWithoutLastLine(f) == f.lines

\* after the loop: if (currentLine) lines.push(currentLine); return lines
SplitReturn(f) ==
    IF Len(f.currentLine) > 0 THEN Append(f.lines, f.currentLine) ELSE f.lines

RECURSIVE SplitLoop(_)
SplitLoop(f) == IF f.i <= Len(f.html) THEN SplitLoop(SplitStep(f)) ELSE f

splitHighlightedHtml(html) == SplitReturn(SplitLoop(SplitFrame(html)))


\* ------------------------------------------------------------------------
\* formatDiffForTable, first pass: the body of the loop over the lines
\* ------------------------------------------------------------------------

IsHunkLine(line) == StartsWith(line, HunkPrefix)
\* IsFileHeader knowing "+++" only
IsFileHeaderPlusOnly(line) == StartsWith(line, FileAdd)

\* line.startsWith("+++") || line.startsWith("---")
IsFileHeader(line) == StartsWith(line, FileAdd) \/ StartsWith(line, FileRemove)
IsAddLine(line) ==
    ~IsHunkLine(line) /\ ~IsFileHeader(line) /\ StartsWith(line, <<"+">>)
IsRemoveLine(line) ==
    ~IsHunkLine(line) /\ ~IsFileHeader(line) /\ StartsWith(line, <<"-">>)
IsContextLine(line) ==
    /\ ~IsHunkLine(line)
    /\ ~IsFileHeader(line)
    /\ ~StartsWith(line, <<"+">>)
    /\ ~StartsWith(line, <<"-">>)

\* HunkCounters with the counters set to zero when the header does not match
HunkCountersResetOnNoMatch(line, c) ==
    IF HunkMatches(line)
    THEN [oldLine |-> ParseInt(HunkMatch(line).g1),
          newLine |-> ParseInt(HunkMatch(line).g2)]
    ELSE [oldLine |-> 0, newLine |-> 0]

\* The counters after a line that starts with "@@"; c = [oldLine, newLine].
HunkCounters(line, c) ==
    IF HunkMatches(line)
    THEN [oldLine |-> ParseInt(HunkMatch(line).g1),
          newLine |-> ParseInt(HunkMatch(line).g2)]
    ELSE c

\* type "add": what is pushed, and the counters after it
AddLine(line, c) ==
    [type |-> "add",
     code |-> Slice1(line),
     nums |-> [old |-> JSEmpty, new |-> JSNum(c.newLine)],
     c |-> [c EXCEPT !.newLine = @ + 1]]

\* RemoveLine without oldLine++
RemoveLineWithoutIncrement(line, c) ==
    [type |-> "remove",
     code |-> Slice1(line),
     nums |-> [old |-> JSNum(c.oldLine), new |-> JSEmpty],
     c |-> c]

\* type "remove"
RemoveLine(line, c) ==
    [type |-> "remove",
     code |-> Slice1(line),
     nums |-> [old |-> JSNum(c.oldLine), new |-> JSEmpty],
     c |-> [c EXCEPT !.oldLine = @ + 1]]

\* ContextLine with oldLine++ and newLine++ whatever the counters are
ContextLineAlwaysIncrementing(line, c) ==
    [type |-> "context",
     code |-> IF StartsWith(line, <<" ">>) THEN Slice1(line) ELSE line,
     nums |-> [old |-> IF c.oldLine # 0 THEN JSNum(c.oldLine) ELSE JSEmpty,
               new |-> IF c.newLine # 0 THEN JSNum(c.newLine) ELSE JSEmpty],
     c |-> [oldLine |-> c.oldLine + 1, newLine |-> c.newLine + 1]]

\* ContextLine without the || "": a counter that is 0 is recorded as 0
ContextLineShowingZero(line, c) ==
    [type |-> "context",
     code |-> IF StartsWith(line, <<" ">>) THEN Slice1(line) ELSE line,
     nums |-> [old |-> JSNum(c.oldLine), new |-> JSNum(c.newLine)],
     c |-> [oldLine |-> IF c.oldLine # 0 THEN c.oldLine + 1 ELSE c.oldLine,
            newLine |-> IF c.newLine # 0 THEN c.newLine + 1 ELSE c.newLine]]

\* type "context": oldLine || "", newLine || "", if (oldLine) oldLine++, ...
ContextLine(line, c) ==
    [type |-> "context",
     code |-> IF StartsWith(line, <<" ">>) THEN Slice1(line) ELSE line,
     nums |-> [old |-> IF c.oldLine # 0 THEN JSNum(c.oldLine) ELSE JSEmpty,
               new |-> IF c.newLine # 0 THEN JSNum(c.newLine) ELSE JSEmpty],
     c |-> [oldLine |-> IF c.oldLine # 0 THEN c.oldLine + 1 ELSE c.oldLine,
            newLine |-> IF c.newLine # 0 THEN c.newLine + 1 ELSE c.newLine]]

\* ------------------------------------------------------------------------
\* formatDiffForTable, third pass: one row of the table
\* ------------------------------------------------------------------------

\* The row as its class, the text of its two number cells, its marker glyph
\* and the code that follows the marker.
TableRow(type, code, nums) ==
    IF type = "add"
    THEN [cls |-> "diff-add-row", old |-> <<>>, new |-> Interpolate(nums.new),
          marker |-> "+", code |-> code]
    ELSE IF type = "remove"
    THEN [cls |-> "diff-remove-row", old |-> Interpolate(nums.old),
          new |-> <<>>, marker |-> "-", code |-> code]
    ELSE [cls |-> "diff-context-row", old |-> Interpolate(nums.old),
          new |-> Interpolate(nums.new), marker |-> " ", code |-> code]


\* ------------------------------------------------------------------------
\* Inputs
\* ------------------------------------------------------------------------

\* the header of the spec's scenario
LineHunk == <<"@", "@", " ", "-", "1", ",", "2", " ", "+", "1", ",", "3", " ", "@", "@">>
\* counts left out, a two-digit start, 9 -> 10 on the way
LineHunkFar == <<"@", "@", " ", "-", "9", " ", "+", "1", "2", ",", "4", " ", "@", "@">>
\* old start 0, as in the patch of a new file
LineHunkNewFile == <<"@", "@", " ", "-", "0", ",", "0", " ", "+", "1", " ", "@", "@">>
\* starts with @@ and has not the shape of a header
LineHunkBad == <<"@", "@", " ", "g", " ", "@", "@">>
LineFileAdd == <<"+", "+", "+", " ", "a">>
LineFileRemove == <<"-", "-", "-", " ", "b">>
LineAdd == <<"+", "n">>
\* code that escapeHtml changes
LineAddEscaped == <<"+", "<", "&">>
LineRemove == <<"-", "o">>
LineContext == <<" ", "c">>
\* a blank line of the file, as context
LineContextBlank == <<" ">>
\* the empty physical line (after a final newline, or a whole empty patch)
LineEmpty == <<>>

\* The lines that patches are made of in every order.
PatchLines ==
    {LineHunk,
     LineHunkFar,
     LineHunkNewFile,
     LineHunkBad,
     LineFileAdd,
     LineAdd,
     LineAddEscaped,
     LineRemove,
     LineContext,
     LineEmpty}

\* Further patches: the scenarios of the spec, and the two other lines (a
\* "---" file header, a blank context line) in the places where they matter.
LineContextIndented == <<" ", " ", "c">>

ScenarioPatches ==
    {JoinLines(<<LineContextIndented, LineHunk, LineContextIndented>>),
     JoinLines(<<LineHunk, LineRemove, LineAdd, LineContext>>),
     JoinLines(<<LineHunk, LineRemove, LineHunkBad, LineContext>>),
     JoinLines(<<LineHunk, LineContext, LineHunkFar, LineRemove, LineContext>>),
     JoinLines(<<LineHunk, LineRemove, LineAdd, LineContextBlank>>),
     JoinLines(<<LineFileAdd, LineFileRemove>>),
     JoinLines(<<LineFileRemove, LineFileAdd, LineHunk, LineContext>>),
     JoinLines(<<LineHunk, LineRemove, LineFileRemove, LineContext>>),
     JoinLines(<<LineContextBlank>>),
     JoinLines(<<LineContextBlank, LineEmpty>>),
     JoinLines(<<LineContextBlank, LineContext>>),
     JoinLines(<<LineHunk, LineContextBlank, LineContext>>)}

\* All patches of 1..MaxLines lines of PatchLines, joined by "\n"; the one-line
\* patch of the empty line is the empty string.
Patches ==
    {JoinLines(ls) : ls \in UNION {[1..n -> PatchLines] : n \in 1..MaxLines}}
        \cup ScenarioPatches

\* ------------------------------------------------------------------------
\* The highlighter: hljs.highlightAuto(fullCode).value
\* ------------------------------------------------------------------------

\* highlight.js escapes the text and wraps tokens in <span class=...> elements;
\* a token may run over several lines. Here: no token, or one token at any place.
HljsOutputs(code) ==
    {escapeHtml(code)} \cup
    {escapeHtml(SubSeq(code, 1, b)) \o SpanOpen
        \o escapeHtml(SubSeq(code, b + 1, t)) \o SpanClose
        \o escapeHtml(SubSeq(code, t + 1, Len(code))) :
            <<b, t>> \in {x \in (0..Len(code)) \X (0..Len(code)) : x[1] < x[2]}}

\* A stand-in highlighter that returns another number of newlines than it was given.
DoubleOutputs(code) ==
    {escapeHtml(code) \o <<NL, "x">>, Concat(SplitLines(escapeHtml(code)))}


\* ------------------------------------------------------------------------
\* State
\* ------------------------------------------------------------------------

VARIABLES
    pc,                \* where the call of formatDiffForTable stands
    patch,             \* its argument
    lines,             \* patch.split("\n")
    idx,               \* the line the for loop is at
    oldLine, newLine,  \* the running counters
    codeLines, lineTypes, lineNumbers,
    highlighted,       \* what the highlighter returned
    hlOutcome,         \* "none", "value" or "threw"
    hlCalls,           \* calls of the highlighter made by this call
    highlightedLines,
    html,              \* what the call returned (or threw)
    sp,                \* the locals of a call of splitHighlightedHtml
    spc,               \* where that call stands
    fragments,         \* what that call returned
    patchType,         \* what kind of JavaScript value the argument patch is
    hljs,              \* the highlighter the module has imported
    returned,          \* the calls that have returned: their patch and result
    gImpl,             \* the module whose groupByFile is called
    gpc,               \* where the call of groupByFile stands
    commentsType,      \* what kind of JavaScript value its argument is
    comments,          \* the elements the argument yields
    gi,                \* the element the loop is at
    acc,               \* the object the groups are collected in
    warnings,          \* what console.warn was called with
    grouped,           \* what the call returned (or threw)
    fImpl,             \* the server file whose fetchAll is called
    fpc,               \* where the call of fetchAll stands
    method,            \* the Octokit method it was given
    page,              \* its page counter
    results,           \* the items it has collected
    requests,          \* the calls of method it has made
    received,          \* the pages that came back
    logged,            \* the levels log was called with
    fetched,           \* what the call returned (or threw)
    url,               \* of each panel: the text of its URL field
    prData,            \* of each panel: its data, the last response assigned
    loading,           \* of each panel
    error,             \* of each panel: its error message
    refreshing,        \* of each panel
    intervalId,        \* of each panel: the id startRefresh kept
    timers,            \* of each panel: the intervals that are active
    timeouts,          \* of each panel: pending resets of refreshing
    inflight,          \* of each panel: the calls of load awaiting fetchPR
    panelComments,     \* the comment count of each panel
    urlPropagation,    \* the shared propagation state
    started,           \* the calls of load made in the last step, in order
    propagated,        \* the call of urlPropagation.set of the last step
    ended,             \* the calls of load that ended in the last step
    used               \* how many events of the user and the clock there were

diffVars ==
    <<pc, patch, lines, idx, oldLine, newLine, codeLines, lineTypes,
      lineNumbers, highlighted, hlOutcome, hlCalls, highlightedLines, html>>
splitVars == <<sp, spc, fragments>>
groupVars ==
    <<gImpl, gpc, commentsType, comments, gi, acc, warnings, grouped>>
fetchVars ==
    <<fImpl, fpc, method, page, results, requests, received, logged, fetched>>
panelVars ==
    <<url, prData, loading, error, refreshing, intervalId, timers, timeouts,
      inflight, panelComments, urlPropagation, started, propagated, ended,
      used>>
appVars == <<fetchVars, panelVars>>

nonFetchVars ==
    <<diffVars, splitVars, patchType, hljs, returned, groupVars, panelVars>>
nonPanelVars ==
    <<diffVars, splitVars, patchType, hljs, returned, groupVars, fetchVars>>
renderVars == <<diffVars, splitVars, patchType, hljs, returned, appVars>>
outerVars == <<patchType, hljs, returned, groupVars, appVars>>
vars == <<diffVars, splitVars, outerVars>>

NoDiff == [kind |-> "no-diff", rows |-> <<>>]
Table(rows) == [kind |-> "table", rows |-> rows]
Thrown == [kind |-> "TypeError", rows |-> <<>>]
NotReturned == [kind |-> "none", rows |-> <<>>]

DiffLocalsInit ==
    /\ lines = <<>>
    /\ idx = 1
    /\ oldLine = 0
    /\ newLine = 0
    /\ codeLines = <<>>
    /\ lineTypes = <<>>
    /\ lineNumbers = <<>>
    /\ highlighted = <<>>
    /\ hlOutcome = "none"
    /\ hlCalls = 0
    /\ highlightedLines = <<>>
    /\ html = NotReturned

SplitIdle ==
    /\ sp = SplitFrame(<<>>)
    /\ spc = "idle"
    /\ fragments = <<>>

\* Nothing outside the call modelled is going on.
GroupIdle ==
    /\ gImpl = "formatters"
    /\ gpc = "idle"
    /\ commentsType = "array"
    /\ comments = <<>>
    /\ gi = 1
    /\ acc = <<>>
    /\ warnings = <<>>
    /\ grouped = [kind |-> "none", groups |-> <<>>]

\* The highlighter is highlight.js, of which any output is possible; the call
\* is the first.
FirstCall == hljs = "highlight.js" /\ returned = <<>>

FetchIdle ==
    /\ fImpl = "part_000"
    /\ fpc = "idle"
    /\ method = "none"
    /\ page = 1
    /\ results = <<>>
    /\ requests = <<>>
    /\ received = <<>>
    /\ logged = <<>>
    /\ fetched = [kind |-> "none", results |-> <<>>]

\* The server and the panels are at rest.
\* The panels the page shows: _panelComments = {1: 0, 2: 0, 3: 0}
NumPanels == 3

Panels == 1..NumPanels

\* let _urlPropagation = $state({url: "", sourceIndex: null, autoLoad: false})
NoPropagation == [url |-> <<>>, sourceIndex |-> 0, autoLoad |-> FALSE]

\* let data = $state(null)
NoData == [null |-> TRUE, url |-> <<>>, commentCount |-> 0]

\* The panels as they are constructed, and nothing done yet.
PanelIdle ==
    /\ url = [p \in Panels |-> <<>>]
    /\ prData = [p \in Panels |-> NoData]
    /\ loading = [p \in Panels |-> FALSE]
    /\ error = [p \in Panels |-> ""]
    /\ refreshing = [p \in Panels |-> FALSE]
    /\ intervalId = [p \in Panels |-> 0]
    /\ timers = [p \in Panels |-> {}]
    /\ timeouts = [p \in Panels |-> 0]
    /\ inflight = [p \in Panels |-> {}]
    /\ panelComments = [p \in Panels |-> 0]
    /\ urlPropagation = NoPropagation
    /\ started = <<>>
    /\ propagated = <<>>
    /\ ended = {}
    /\ used = 0

AppIdle == FetchIdle /\ PanelIdle

OuterIdle == patchType = "string" /\ FirstCall /\ GroupIdle /\ AppIdle

\* A call formatDiffForTable(patch), patch a string.
Init ==
    /\ pc = "start"
    /\ patch \in Patches
    /\ DiffLocalsInit
    /\ SplitIdle
    /\ OuterIdle

\* ------------------------------------------------------------------------
\* formatDiffForTable
\* ------------------------------------------------------------------------

\* if (!patch) return '<p class="no-diff">No diff available</p>'
NotPatch(p) == Len(p) = 0

ReturnNoDiff ==
    /\ pc = "start"
    /\ patchType = "string"
    /\ NotPatch(patch)
    /\ html' = NoDiff
    /\ pc' = "done"
    /\ UNCHANGED <<patch, lines, idx, oldLine, newLine, codeLines, lineTypes,
                   lineNumbers, highlighted, hlOutcome, hlCalls,
                   highlightedLines, splitVars, outerVars>>

SplitPatch ==
    /\ pc = "start"
    /\ patchType = "string"
    /\ ~NotPatch(patch)
    /\ lines' = SplitLines(patch)
    /\ pc' = "loop"
    /\ UNCHANGED <<patch, idx, oldLine, newLine, codeLines, lineTypes,
                   lineNumbers, highlighted, hlOutcome, hlCalls,
                   highlightedLines, html, splitVars, outerVars>>

InLoop == pc = "loop" /\ idx <= Len(lines)
Counters == [oldLine |-> oldLine, newLine |-> newLine]

Skip(c) ==
    /\ oldLine' = c.oldLine
    /\ newLine' = c.newLine
    /\ idx' = idx + 1
    /\ UNCHANGED <<pc, patch, lines, codeLines, lineTypes, lineNumbers,
                   highlighted, hlOutcome, hlCalls, highlightedLines, html,
                   splitVars, outerVars>>

Push(r) ==
    /\ oldLine' = r.c.oldLine
    /\ newLine' = r.c.newLine
    /\ lineNumbers' = Append(lineNumbers, r.nums)
    /\ codeLines' = Append(codeLines, r.code)
    /\ lineTypes' = Append(lineTypes, r.type)
    /\ idx' = idx + 1
    /\ UNCHANGED <<pc, patch, lines, highlighted, hlOutcome, hlCalls,
                   highlightedLines, html, splitVars, outerVars>>

ClassifyHunk ==
    /\ InLoop
    /\ IsHunkLine(lines[idx])
    /\ Skip(HunkCounters(lines[idx], Counters))

ClassifyFileHeader ==
    /\ InLoop
    /\ ~IsHunkLine(lines[idx])
    /\ IsFileHeader(lines[idx])
    /\ Skip(Counters)

ClassifyAdd ==
    /\ InLoop
    /\ IsAddLine(lines[idx])
    /\ Push(AddLine(lines[idx], Counters))

ClassifyRemove ==
    /\ InLoop
    /\ IsRemoveLine(lines[idx])
    /\ Push(RemoveLine(lines[idx], Counters))

ClassifyContext ==
    /\ InLoop
    /\ IsContextLine(lines[idx])
    /\ Push(ContextLine(lines[idx], Counters))

LoopDone == pc = "loop" /\ idx > Len(lines)

\* codeLines.length > 0 is false: highlightedLines = []
HighlightNothing ==
    /\ LoopDone
    /\ Len(codeLines) = 0
    /\ highlightedLines' = <<>>
    /\ pc' = "table"
    /\ UNCHANGED <<patch, lines, idx, oldLine, newLine, codeLines, lineTypes,
                   lineNumbers, highlighted, hlOutcome, hlCalls, html,
                   splitVars, outerVars>>

\* try { highlighted = hljs.highlightAuto(fullCode).value;
\*       highlightedLines = splitHighlightedHtml(highlighted) }
Highlighted(blob) ==
    /\ LoopDone
    /\ Len(codeLines) > 0
    /\ highlighted' = blob
    /\ hlOutcome' = "value"
    /\ hlCalls' = hlCalls + 1
    /\ highlightedLines' = splitHighlightedHtml(blob)
    /\ pc' = "table"
    /\ UNCHANGED <<patch, lines, idx, oldLine, newLine, codeLines, lineTypes,
                   lineNumbers, html, splitVars, outerVars>>

HighlightBlock == \E blob \in HljsOutputs(JoinLines(codeLines)) : Highlighted(blob)

\* FallbackLines without the escaping
FallbackLinesUnescaped(cl) == cl

\* catch (error) { highlightedLines = codeLines.map(escapeHtml) }
FallbackLines(cl) == [k \in 1..Len(cl) |-> escapeHtml(cl[k])]

\* HighlightThrows with a second call of the highlighter in the catch block
HighlightThrowsAndCallsAgain ==
    /\ LoopDone
    /\ Len(codeLines) > 0
    /\ hlOutcome' = "threw"
    /\ hlCalls' = hlCalls + 2
    /\ highlightedLines' = FallbackLines(codeLines)
    /\ pc' = "table"
    /\ UNCHANGED <<patch, lines, idx, oldLine, newLine, codeLines, lineTypes,
                   lineNumbers, highlighted, html, splitVars, outerVars>>

HighlightThrows ==
    /\ LoopDone
    /\ Len(codeLines) > 0
    /\ hlOutcome' = "threw"
    /\ hlCalls' = hlCalls + 1
    /\ highlightedLines' = FallbackLines(codeLines)
    /\ pc' = "table"
    /\ UNCHANGED <<patch, lines, idx, oldLine, newLine, codeLines, lineTypes,
                   lineNumbers, highlighted, html, splitVars, outerVars>>

\* The for loop over highlightedLines reads lineTypes[i] and lineNumbers[i]; past
\* their end both are undefined, the row falls to the context branch and
\* nums.old throws a TypeError.
TableRows(hl, types, nums) ==
    [k \in 1..Len(hl) |-> TableRow(types[k], hl[k], nums[k])]

BuildTable ==
    /\ pc = "table"
    /\ Len(highlightedLines) <= Len(lineNumbers)
    /\ html' = Table(TableRows(highlightedLines, lineTypes, lineNumbers))
    /\ pc' = "done"
    /\ UNCHANGED <<patch, lines, idx, oldLine, newLine, codeLines, lineTypes,
                   lineNumbers, highlighted, hlOutcome, hlCalls,
                   highlightedLines, splitVars, outerVars>>

BuildTableThrows ==
    /\ pc = "table"
    /\ Len(highlightedLines) > Len(lineNumbers)
    /\ html' = Thrown
    /\ pc' = "done"
    /\ UNCHANGED <<patch, lines, idx, oldLine, newLine, codeLines, lineTypes,
                   lineNumbers, highlighted, hlOutcome, hlCalls,
                   highlightedLines, splitVars, outerVars>>

Next ==
    \/ ReturnNoDiff
    \/ SplitPatch
    \/ ClassifyHunk
    \/ ClassifyFileHeader
    \/ ClassifyAdd
    \/ ClassifyRemove
    \/ ClassifyContext
    \/ HighlightNothing
    \/ HighlightBlock
    \/ HighlightThrows
    \/ BuildTable

Spec == Init /\ [][Next]_vars


\* ------------------------------------------------------------------------
\* formatDiffForTable called with any JavaScript value
\* ------------------------------------------------------------------------

\* The kinds of value a caller can pass: a string, null, undefined, the number
\* 0, another number, an object, an array.
ArgTypes ==
    {"string", "null", "undefined", "zero", "number", "object", "array"}

\* !patch for a value that is not a string: null, undefined and 0 are falsy,
\* every other number, every object and every array (the empty one too) is
\* truthy.
NotPatchType(t) == t \in {"null", "undefined", "zero"}

\* if (!patch) return '<p class="no-diff">No diff available</p>'
ReturnNoDiffNotString ==
    /\ pc = "start"
    /\ patchType # "string"
    /\ NotPatchType(patchType)
    /\ html' = NoDiff
    /\ pc' = "done"
    /\ UNCHANGED <<patch, lines, idx, oldLine, newLine, codeLines, lineTypes,
                   lineNumbers, highlighted, hlOutcome, hlCalls,
                   highlightedLines, splitVars, outerVars>>

\* const lines = patch.split("\n"): numbers, objects and arrays have no split
\* method, the call throws TypeError "patch.split is not a function".
SplitNotAFunction ==
    /\ pc = "start"
    /\ patchType # "string"
    /\ ~NotPatchType(patchType)
    /\ html' = Thrown
    /\ pc' = "done"
    /\ UNCHANGED <<patch, lines, idx, oldLine, newLine, codeLines, lineTypes,
                   lineNumbers, highlighted, hlOutcome, hlCalls,
                   highlightedLines, splitVars, outerVars>>

InitAnyArg ==
    /\ pc = "start"
    /\ patchType \in ArgTypes
    /\ patch \in IF patchType = "string"
                 THEN ScenarioPatches \cup {<<>>}
                 ELSE {<<>>}
    /\ DiffLocalsInit
    /\ SplitIdle
    /\ FirstCall
    /\ GroupIdle
    /\ AppIdle

NextAnyArg ==
    \/ Next
    \/ ReturnNoDiffNotString
    \/ SplitNotAFunction

SpecAnyArg == InitAnyArg /\ [][NextAnyArg]_vars


\* ------------------------------------------------------------------------
\* formatDiffForTable with a highlighter that miscounts the newlines
\* ------------------------------------------------------------------------

NewlineCount(text) == Cardinality({k \in 1..Len(text) : text[k] = NL})

HighlightMiscounted ==
    \E blob \in DoubleOutputs(JoinLines(codeLines)) :
        /\ NewlineCount(blob) # NewlineCount(JoinLines(codeLines))
        /\ Highlighted(blob)

NextDouble ==
    \/ Next
    \/ HighlightMiscounted
    \/ BuildTableThrows

SpecDouble == Init /\ [][NextDouble]_vars

\* ------------------------------------------------------------------------
\* splitHighlightedHtml alone, on any blob
\* ------------------------------------------------------------------------

SpanOpenOther == <<"<", "s", "p", "a", "n", " ", "d", ">">>
\* the beginning of a tag, and the character that would end it
SpanBegun == <<"<", "s", "p", "a", "n">>
TagEnd == <<">">>

BlobPieces ==
    {SpanOpen, SpanOpenOther, SpanClose, <<NL>>, <<"a">>, SpanBegun, TagEnd}

Blobs ==
    {Concat(ps) : ps \in UNION {[1..n -> BlobPieces] : n \in 0..MaxPieces}}

\* An element within an element, the inner one spanning two lines and the
\* outer one three.
NestedBlob ==
    SpanOpen \o SpanOpenOther \o <<"a", NL, "a">> \o SpanClose
        \o <<NL>> \o SpanClose

\* Blobs with a "<" that begins no tag, before, within and after a wrapper
\* element that spans two lines; and the nested blob.
ScenarioBlobs ==
    {<<"<">>,
     <<"a", "<", "b">>,
     <<"<">> \o SpanOpen \o <<"a", NL, "<", "b">> \o SpanClose \o <<"<">>,
     NestedBlob}

\* A call splitHighlightedHtml(html), html any blob.
InitSplit ==
    /\ pc = "idle"
    /\ patch = <<>>
    /\ DiffLocalsInit
    /\ sp \in {SplitFrame(blob) : blob \in Blobs \cup ScenarioBlobs}
    /\ spc = "scan"
    /\ fragments = <<>>
    /\ OuterIdle

Scanning == spc = "scan" /\ sp.i <= Len(sp.html)

ScanNewline ==
    /\ Scanning
    /\ AtNewline(sp)
    /\ sp' = SplitNewline(sp)
    /\ UNCHANGED <<spc, fragments, diffVars, outerVars>>

ScanOpeningTag ==
    /\ Scanning
    /\ AtTag(sp)
    /\ ~IsClosingTag(sp.html, sp.i)
    /\ sp' = SplitTag(sp)
    /\ UNCHANGED <<spc, fragments, diffVars, outerVars>>

ScanClosingTag ==
    /\ Scanning
    /\ AtTag(sp)
    /\ IsClosingTag(sp.html, sp.i)
    /\ sp' = SplitTag(sp)
    /\ UNCHANGED <<spc, fragments, diffVars, outerVars>>

ScanChar ==
    /\ Scanning
    /\ AtChar(sp)
    /\ sp' = SplitChar(sp)
    /\ UNCHANGED <<spc, fragments, diffVars, outerVars>>

ScanReturn ==
    /\ spc = "scan"
    /\ sp.i > Len(sp.html)
    /\ fragments' = SplitReturn(sp)
    /\ spc' = "done"
    /\ UNCHANGED <<sp, diffVars, outerVars>>

NextSplit ==
    \/ ScanNewline
    \/ ScanOpeningTag
    \/ ScanClosingTag
    \/ ScanChar
    \/ ScanReturn

SpecSplit == InitSplit /\ [][NextSplit]_vars

\* The loop and the return are synchronous code: once called, the splitter
\* runs its next statement.
SpecSplitFair == SpecSplit /\ WF_vars(NextSplit)


\* ------------------------------------------------------------------------
\* Vocabulary of the properties
\* ------------------------------------------------------------------------

\* The lines, among the physical lines L of a patch, that are neither hunk
\* headers nor file headers.
IsHeaderLine(line) ==
    \/ StartsWith(line, <<"@", "@">>)
    \/ StartsWith(line, <<"+", "+", "+">>)
    \/ StartsWith(line, <<"-", "-", "-">>)

CodeLineIndexes(L) == {j \in 1..Len(L) : ~IsHeaderLine(L[j])}

\* the physical line of the m-th code line
PhysicalIndex(L, m) ==
    CHOOSE j \in CodeLineIndexes(L) :
        Cardinality({k \in CodeLineIndexes(L) : k < j}) = m - 1

\* patch.trim() is empty
IsBlank(p) == \A k \in 1..Len(p) : p[k] \in {" ", NL}

\* Wrapper tags of a piece of markup, counted from position i on.
RECURSIVE CountTags(_, _, _)
CountTags(h, i, closing) ==
    IF i > Len(h) THEN 0
    ELSE IF TagLen(h, i) > 0
    THEN (IF IsClosingTag(h, i) = closing THEN 1 ELSE 0)
             + CountTags(h, i + TagLen(h, i), closing)
    ELSE CountTags(h, i + 1, closing)

OpeningTags(h) == CountTags(h, 1, FALSE)
ClosingTagCount(h) == CountTags(h, 1, TRUE)

\* The markup without its wrapper tags.
RECURSIVE TextFrom(_, _)
TextFrom(h, i) ==
    IF i > Len(h) THEN <<>>
    ELSE IF TagLen(h, i) > 0 THEN TextFrom(h, i + TagLen(h, i))
    ELSE <<h[i]>> \o TextFrom(h, i + 1)

TextOf(h) == TextFrom(h, 1)

\* The blob without its line separators (a newline within the text of a tag
\* separates no lines).
RECURSIVE UnseparatedFrom(_, _)
UnseparatedFrom(h, i) ==
    IF i > Len(h) THEN <<>>
    ELSE IF h[i] = NL THEN UnseparatedFrom(h, i + 1)
    ELSE IF TagLen(h, i) > 0
    THEN SubSeq(h, i, i + TagLen(h, i) - 1)
             \o UnseparatedFrom(h, i + TagLen(h, i))
    ELSE <<h[i]>> \o UnseparatedFrom(h, i + 1)

Unseparated(h) == UnseparatedFrom(h, 1)

\* Some line separator of the blob lies within a wrapper element: depth counts
\* the tags opened and not yet closed.
RECURSIVE OpenAtSeparator(_, _, _)
OpenAtSeparator(h, i, depth) ==
    IF i > Len(h) THEN FALSE
    ELSE IF h[i] = NL THEN depth > 0 \/ OpenAtSeparator(h, i + 1, depth)
    ELSE IF TagLen(h, i) > 0
    THEN OpenAtSeparator(h, i + TagLen(h, i),
                         IF IsClosingTag(h, i)
                         THEN (IF depth > 0 THEN depth - 1 ELSE 0)
                         ELSE depth + 1)
    ELSE OpenAtSeparator(h, i + 1, depth)

NoTagOpenAtSeparator(h) == ~OpenAtSeparator(h, 1, 0)

\* The five characters of HTML that must not reach the page, as entities.
RECURSIVE AsEntities(_)
AsEntities(text) ==
    IF Len(text) = 0 THEN <<>>
    ELSE (IF text[1] = "&" THEN <<"&", "a", "m", "p", ";">>
          ELSE IF text[1] = "<" THEN <<"&", "l", "t", ";">>
          ELSE IF text[1] = ">" THEN <<"&", "g", "t", ";">>
          ELSE IF text[1] = "\"" THEN <<"&", "q", "u", "o", "t", ";">>
          ELSE IF text[1] = "'" THEN <<"&", "#", "3", "9", ";">>
          ELSE <<text[1]>>) \o AsEntities(Tail(text))

\* ------------------------------------------------------------------------
\* Properties
\* ------------------------------------------------------------------------

\* C1: for every non-empty patch the returned table has as many rows as the
\* patch has physical lines that are neither hunk headers nor file headers.
C1_RowsEqualCodeLines ==
    (pc = "done" /\ Len(patch) > 0) =>
        /\ html.kind = "table"
        /\ Len(html.rows) = Cardinality(CodeLineIndexes(SplitLines(patch)))

\* C2: before the table is assembled, lineTypes, lineNumbers and
\* highlightedLines have the same length and entry i of each describes the
\* i-th code line: fragment i carries the text of code line i.
C2_ArraysAligned ==
    pc = "table" =>
        /\ Len(lineTypes) = Len(lineNumbers)
        /\ Len(lineNumbers) = Len(highlightedLines)
        /\ \A k \in 1..Len(highlightedLines) :
               TextOf(highlightedLines[k]) = AsEntities(codeLines[k])

\* C3: every fragment returned by splitHighlightedHtml, for any blob, has as
\* many opening wrapper tags as closing ones.
C3_FragmentsBalanced ==
    spc = "done" =>
        \A k \in 1..Len(fragments) :
            OpeningTags(fragments[k]) = ClosingTagCount(fragments[k])

\* C4, as claimed: the fragments, concatenated, are the blob without its line
\* separators.
C4_ConcatIsBlob ==
    spc = "done" => Concat(fragments) = Unseparated(sp.html)

\* C4, amended: the fragments, concatenated, are the blob without its line
\* separators whenever no wrapper tag is open at a line separator.
C4_ConcatIsBlobWhenNoTagSpansLines ==
    (spc = "done" /\ NoTagOpenAtSeparator(sp.html)) =>
        Concat(fragments) = Unseparated(sp.html)

\* C4's case: a blob of several lines with wrapper tags, each closed on its line.
C4_Witness ==
    /\ spc = "done"
    /\ NoTagOpenAtSeparator(sp.html)
    /\ Len(fragments) >= 2
    /\ OpeningTags(sp.html) >= 1
    /\ ClosingTagCount(sp.html) >= 1


\* The kind of a physical line that is no header, by its first character.
KindOf(line) ==
    IF StartsWith(line, <<"+">>) THEN "add"
    ELSE IF StartsWith(line, <<"-">>) THEN "remove"
    ELSE "context"

\* The well-formed hunk headers above physical line j, and the last of them.
HeadersAbove(L, j) ==
    {h \in 1..(j - 1) : StartsWith(L[h], <<"@", "@">>) /\ HunkMatches(L[h])}

LastHeader(L, j) ==
    CHOOSE h \in HeadersAbove(L, j) : \A g \in HeadersAbove(L, j) : g <= h

OldStart(L, h) == ParseInt(HunkMatch(L[h]).g1)
NewStart(L, h) == ParseInt(HunkMatch(L[h]).g2)

\* The code lines of the given kinds between header h and line j.
Since(L, h, j, kinds) ==
    Cardinality({k \in CodeLineIndexes(L) :
                    h < k /\ k < j /\ KindOf(L[k]) \in kinds})

\* Line j lies under a header whose two starts are at least 1.
Numbered(L, j) ==
    /\ HeadersAbove(L, j) # {}
    /\ OldStart(L, LastHeader(L, j)) >= 1
    /\ NewStart(L, LastHeader(L, j)) >= 1

ExpectedOld(L, j) ==
    OldStart(L, LastHeader(L, j))
        + Since(L, LastHeader(L, j), j, {"remove", "context"})

ExpectedNew(L, j) ==
    NewStart(L, LastHeader(L, j))
        + Since(L, LastHeader(L, j), j, {"add", "context"})

ScenarioPatch == JoinLines(<<LineHunk, LineRemove, LineAdd, LineContext>>)

\* C5: under a well-formed header with starts a, b >= 1, a removed or context
\* line shows old = a + the removed and context lines since that header, an
\* added or context line shows new = b + the added and context lines since it;
\* the patch of the scenario gives the rows (1, ), ( , 1), (2, 2).
\* (The numbers are checked where the loop computes them, at every line of the
\* patch and at its end; the rows are checked to show those numbers.)
C5_NumbersFollowLastHeader ==
    LET L == SplitLines(patch)
    IN  /\ pc = "loop" =>
               \A m \in 1..Len(lineNumbers) :
                   LET j == PhysicalIndex(L, m)
                   IN  Numbered(L, j) =>
                           /\ KindOf(L[j]) \in {"remove", "context"} =>
                                  lineNumbers[m].old = JSNum(ExpectedOld(L, j))
                           /\ KindOf(L[j]) \in {"add", "context"} =>
                                  lineNumbers[m].new = JSNum(ExpectedNew(L, j))
        /\ (pc = "done" /\ html.kind = "table") =>
               \A m \in 1..Len(html.rows) :
                   /\ (lineTypes[m] # "add" /\ lineNumbers[m].old.t = "number") =>
                          html.rows[m].old = NumberToString(lineNumbers[m].old.v)
                   /\ (lineTypes[m] # "remove" /\ lineNumbers[m].new.t = "number") =>
                          html.rows[m].new = NumberToString(lineNumbers[m].new.v)
        /\ (pc = "done" /\ patch = ScenarioPatch) =>
               /\ html.kind = "table"
               /\ Len(html.rows) = 3
               /\ html.rows[1].cls = "diff-remove-row"
               /\ html.rows[1].old = <<"1">>
               /\ html.rows[1].new = <<>>
               /\ html.rows[2].cls = "diff-add-row"
               /\ html.rows[2].old = <<>>
               /\ html.rows[2].new = <<"1">>
               /\ html.rows[3].cls = "diff-context-row"
               /\ html.rows[3].old = <<"2">>
               /\ html.rows[3].new = <<"2">>

\* C5's case: a rendered patch of two hunks, the second header met while the
\* counters of the first were running, with rows under both.
C5_Witness ==
    /\ pc = "done"
    /\ html.kind = "table"
    /\ LET L == SplitLines(patch)
       IN  \E m1, m2 \in 1..Len(html.rows) :
               /\ m1 < m2
               /\ Numbered(L, PhysicalIndex(L, m1))
               /\ Numbered(L, PhysicalIndex(L, m2))
               /\ LastHeader(L, PhysicalIndex(L, m1))
                      < LastHeader(L, PhysicalIndex(L, m2))
               /\ html.rows[m2].cls = "diff-context-row"

\* C6: a patch that is empty or only whitespace returns the placeholder, and
\* neither classification, highlighting nor table assembly runs.
C6_BlankPatchGivesNoDiff ==
    IsBlank(patch) =>
        /\ pc \in {"start", "done"}
        /\ pc = "done" => html = NoDiff
        /\ hlCalls = 0

\* C7: a patch that is not blank and has no code line (headers only) returns
\* the placeholder, not a table without rows.
C7_HeadersOnlyGivesNoDiff ==
    (pc = "done" /\ ~IsBlank(patch) /\ CodeLineIndexes(SplitLines(patch)) = {}) =>
        html = NoDiff

MalformedHunk(line) == StartsWith(line, <<"@", "@">>) /\ ~HunkMatches(line)

MalformedAfterHunk == JoinLines(<<LineHunk, LineRemove, LineHunkBad, LineContext>>)
MalformedFirst == JoinLines(<<LineHunkBad, LineContext>>)

\* C8: a line that starts with "@@" and has not the shape of a hunk header
\* emits no row and leaves oldLine and newLine as they were; the lines after
\* it continue the numbering of the hunk before (empty numbers if there is none).
C8_MalformedHunkKeepsCounters ==
    /\ [][(InLoop /\ MalformedHunk(lines[idx])) =>
              /\ oldLine' = oldLine
              /\ newLine' = newLine
              /\ codeLines' = codeLines
              /\ lineTypes' = lineTypes
              /\ lineNumbers' = lineNumbers
              /\ idx' = idx + 1]_vars
    /\ []((pc = "done" /\ patch = MalformedAfterHunk) =>
              /\ Len(html.rows) = 2
              /\ html.rows[2].old = <<"2">>
              /\ html.rows[2].new = <<"1">>)
    /\ []((pc = "done" /\ patch = MalformedFirst) =>
              /\ Len(html.rows) = 1
              /\ html.rows[1].old = <<>>
              /\ html.rows[1].new = <<>>)

\* C8's case: the loop has just passed a malformed header met while the
\* counters of a hunk were running.
C8_Witness ==
    /\ pc = "loop"
    /\ idx > 1
    /\ MalformedHunk(lines[idx - 1])
    /\ oldLine > 1
    /\ newLine >= 1

\* the raw code of a physical code line: the line without its marker
RawCode(line) ==
    IF Len(line) > 0 /\ line[1] \in {"+", "-", " "}
    THEN SubSeq(line, 2, Len(line))
    ELSE line

MarkerOf(kind) ==
    IF kind = "add" THEN "+" ELSE IF kind = "remove" THEN "-" ELSE " "

\* C9: when the highlighter throws, the call still returns a table, of one row
\* per code line in patch order, with the type and numbers of that line and
\* its raw code with &, <, >, " and ' as entities.
C9_HighlighterFailureFallsBack ==
    (pc = "done" /\ hlOutcome = "threw") =>
        LET L == SplitLines(patch)
        IN  /\ html.kind = "table"
            /\ Len(html.rows) = Cardinality(CodeLineIndexes(L))
            /\ \A m \in 1..Len(html.rows) :
                   LET line == L[PhysicalIndex(L, m)]
                   IN  /\ html.rows[m].code = AsEntities(RawCode(line))
                       /\ html.rows[m].marker = MarkerOf(KindOf(line))
                       /\ lineTypes[m] = KindOf(line)
                       /\ html.rows[m].old =
                              (IF KindOf(line) = "add" THEN <<>>
                               ELSE Interpolate(lineNumbers[m].old))
                       /\ html.rows[m].new =
                              (IF KindOf(line) = "remove" THEN <<>>
                               ELSE Interpolate(lineNumbers[m].new))

\* C9's case: the highlighter threw on code of several lines, one of them with
\* characters to escape, and the call has returned.
C9_Witness ==
    /\ pc = "done"
    /\ hlOutcome = "threw"
    /\ Len(codeLines) >= 2
    /\ \E m \in 1..Len(codeLines) : AsEntities(codeLines[m]) # codeLines[m]

\* C10: when the highlighter returns a blob with another number of newlines
\* than the joined code, the call still returns a table of exactly one row per
\* code line, each with the text of its own line, and throws nothing.
C10_MiscountFallsBackPerLine ==
    (/\ pc = "done"
     /\ hlOutcome = "value"
     /\ NewlineCount(highlighted) # NewlineCount(JoinLines(codeLines))) =>
        /\ html.kind = "table"
        /\ Len(html.rows) = Len(codeLines)
        /\ \A m \in 1..Len(html.rows) :
               TextOf(html.rows[m].code) = AsEntities(codeLines[m])


\* ------------------------------------------------------------------------
\* C11
\* ------------------------------------------------------------------------

Throws(result) == result.kind \in {"Error", "TypeError"}

\* C11: a call whose patch argument is not a string (null, undefined, a number,
\* an object, an array) ends by throwing an error; it never returns the
\* placeholder or a table.
C11_NonStringThrows ==
    (pc = "done" /\ patchType # "string") => Throws(html)


\* ------------------------------------------------------------------------
\* groupByFile: the values it works on
\* ------------------------------------------------------------------------

MaxComments == 3

Undefined == [t |-> "undefined", v |-> 0]
Null == [t |-> "null", v |-> 0]

PathUndefined == [t |-> "undefined", s |-> ""]
PathNull == [t |-> "null", s |-> ""]
PathOf(s) == [t |-> "string", s |-> s]

\* x || ... takes x when x is truthy: a number other than 0
TruthyNumber(x) == x.t = "number" /\ x.v # 0

\* !path is false when path is truthy: a string other than ""
TruthyPath(p) == p.t = "string" /\ p.s # ""

\* A comment object; a field the object lacks reads as undefined.
Comment(path, line, original_line) ==
    [kind |-> "object", id |-> 0, path |-> path, line |-> line,
     original_line |-> original_line]

\* An array element that is null: comment?.path, comment?.line and
\* comment?.original_line are undefined.
NullComment ==
    [kind |-> "null", id |-> 0, path |-> PathUndefined, line |-> Undefined,
     original_line |-> Undefined]

\* A character of a string argument: a primitive, every field of which reads
\* as undefined.
CharElement ==
    [kind |-> "char", id |-> 0, path |-> PathUndefined, line |-> Undefined,
     original_line |-> Undefined]

CommentShapes ==
    { Comment(PathOf("a"), JSNum(5), Undefined),
      Comment(PathOf("a"), JSNum(2), JSNum(7)),
      Comment(PathOf("a"), Null, JSNum(5)),
      Comment(PathOf("a"), Undefined, Null),
      Comment(PathOf("b"), JSNum(0), JSNum(3)),
      Comment(PathUndefined, JSNum(1), Undefined),
      Comment(PathNull, JSNum(1), Undefined),
      Comment(PathOf(""), JSNum(1), Undefined),
      Comment(PathOf("constructor"), JSNum(1), Undefined),
      NullComment }

\* The elements are told apart by their position in the argument.
WithIds(shapes) == [k \in 1..Len(shapes) |-> [shapes[k] EXCEPT !.id = k]]

CommentArrays ==
    { WithIds(shapes) :
        shapes \in UNION {[1..n -> CommentShapes] : n \in 0..MaxComments} }

\* The kinds of value a caller can pass for comments: an array, null,
\* undefined, a plain object, the string "ab".
CommentsTypes == {"array", "null", "undefined", "object", "string"}

\* getCommentLineNumber looking at original_line first
getCommentLineNumberOriginalFirst(comment) ==
    IF TruthyNumber(comment.original_line) THEN comment.original_line.v
    ELSE IF TruthyNumber(comment.line) THEN comment.line.v
    ELSE 0

\* comment?.line || comment?.original_line || 0 (formatters.js), and
\* a.line || a.original_line || 0 (markdown.js)
getCommentLineNumber(comment) ==
    IF TruthyNumber(comment.line) THEN comment.line.v
    ELSE IF TruthyNumber(comment.original_line) THEN comment.original_line.v
    ELSE 0

\* The object {} the groups are collected in: its own properties in insertion
\* order, each [key, items]. Besides them it has the properties it inherits
\* from Object.prototype.
ObjectPrototypeKeys ==
    {"constructor", "toString", "valueOf", "hasOwnProperty", "__proto__"}

HasOwn(o, key) == \E k \in 1..Len(o) : o[k].key = key

\* !acc[path]: an own array and an inherited function are truthy
Missing(o, key) == ~HasOwn(o, key) /\ key \notin ObjectPrototypeKeys

\* if (!acc[path]) acc[path] = []
WithGroup(o, key) ==
    IF Missing(o, key) THEN Append(o, [key |-> key, items |-> <<>>]) ELSE o

\* acc[path].push(comment): an inherited function has no push method
PushTo(o, key, comment) ==
    [k \in 1..Len(o) |->
        IF o[k].key = key
        THEN [o[k] EXCEPT !.items = Append(@, comment)]
        ELSE o[k]]

\* groups[comment.path]: a property key that is not a string is converted to
\* one, undefined to "undefined" and null to "null"
ToPropertyKey(p) == IF p.t = "string" THEN p.s ELSE p.t

\* InsertByKey putting the element before the ones of equal key
InsertByKeyBeforeEqual(sorted, x) ==
    LET n == Cardinality({k \in 1..Len(sorted) :
                 getCommentLineNumber(sorted[k]) < getCommentLineNumber(x)})
    IN  SubSeq(sorted, 1, n) \o <<x>> \o SubSeq(sorted, n + 1, Len(sorted))

\* Array.prototype.sort is stable: an element goes behind the ones the
\* comparator puts before it or level with it.
InsertByKey(sorted, x) ==
    LET n == Cardinality({k \in 1..Len(sorted) :
                 getCommentLineNumber(sorted[k]) - getCommentLineNumber(x) <= 0})
    IN  SubSeq(sorted, 1, n) \o <<x>> \o SubSeq(sorted, n + 1, Len(sorted))

RECURSIVE ArraySortFrom(_, _, _)
ArraySortFrom(items, k, sorted) ==
    IF k > Len(items) THEN sorted
    ELSE ArraySortFrom(items, k + 1, InsertByKey(sorted, items[k]))

\* arr.sort((a, b) => getCommentLineNumber(a) - getCommentLineNumber(b))
ArraySort(items) == ArraySortFrom(items, 1, <<>>)

\* Object.keys(groups).forEach(path => groups[path].sort(...))
SortGroups(o) ==
    [k \in 1..Len(o) |-> [o[k] EXCEPT !.items = ArraySort(@)]]

Groups(o) == [kind |-> "groups", groups |-> o]
GroupError == [kind |-> "Error", groups |-> <<>>]
GroupTypeError == [kind |-> "TypeError", groups |-> <<>>]


\* ------------------------------------------------------------------------
\* groupByFile of utils/formatters.js and groupByFile of utils/markdown.js
\* ------------------------------------------------------------------------

InitGroup ==
    /\ pc = "idle"
    /\ patch = <<>>
    /\ DiffLocalsInit
    /\ SplitIdle
    /\ patchType = "string"
    /\ FirstCall
    /\ gImpl \in {"formatters", "markdown"}
    /\ gpc = "call"
    /\ commentsType \in CommentsTypes
    /\ comments \in
         CASE commentsType = "array" -> CommentArrays
           [] commentsType = "string" -> {WithIds(<<CharElement, CharElement>>)}
           [] OTHER -> {<<>>}
    /\ gi = 1
    /\ acc = <<>>
    /\ warnings = <<>>
    /\ grouped = [kind |-> "none", groups |-> <<>>]
    /\ AppIdle

GroupThrow(err) ==
    /\ grouped' = err
    /\ gpc' = "done"
    /\ UNCHANGED <<gImpl, commentsType, comments, gi, acc, warnings,
                   renderVars>>

GroupBegin ==
    /\ gpc' = "reduce"
    /\ UNCHANGED <<gImpl, commentsType, comments, gi, acc, warnings, grouped,
                   renderVars>>

GroupPush(key) ==
    /\ acc' = PushTo(WithGroup(acc, key), key, comments[gi])
    /\ gi' = gi + 1
    /\ UNCHANGED <<gImpl, gpc, commentsType, comments, warnings, grouped,
                   renderVars>>

GroupReturn ==
    /\ acc' = SortGroups(acc)
    /\ grouped' = Groups(acc')
    /\ gpc' = "done"
    /\ UNCHANGED <<gImpl, commentsType, comments, gi, warnings, renderVars>>

\* formatters.js: if (!Array.isArray(comments)) throw new Error(...)
ThrowNotArray ==
    /\ gImpl = "formatters"
    /\ gpc = "call"
    /\ commentsType # "array"
    /\ GroupThrow(GroupError)

ReduceBegin ==
    /\ gImpl = "formatters"
    /\ gpc = "call"
    /\ commentsType = "array"
    /\ GroupBegin

InReduce == gImpl = "formatters" /\ gpc = "reduce" /\ gi <= Len(comments)

\* if (!path) { console.warn(...); return acc; }
ReduceDrop ==
    /\ InReduce
    /\ ~TruthyPath(comments[gi].path)
    /\ warnings' = Append(warnings, comments[gi])
    /\ gi' = gi + 1
    /\ UNCHANGED <<gImpl, gpc, commentsType, comments, acc, grouped,
                   renderVars>>

ReducePush ==
    /\ InReduce
    /\ TruthyPath(comments[gi].path)
    /\ HasOwn(WithGroup(acc, comments[gi].path.s), comments[gi].path.s)
    /\ GroupPush(comments[gi].path.s)

\* acc[path] is a function inherited from Object.prototype: acc[path].push is
\* not a function
ReducePushThrows ==
    /\ InReduce
    /\ TruthyPath(comments[gi].path)
    /\ ~HasOwn(WithGroup(acc, comments[gi].path.s), comments[gi].path.s)
    /\ GroupThrow(GroupTypeError)

SortAndReturn ==
    /\ gImpl = "formatters"
    /\ gpc = "reduce"
    /\ gi > Len(comments)
    /\ GroupReturn

\* markdown.js: for (const comment of comments) on null, undefined or a plain
\* object: TypeError "comments is not iterable"
ForOfNotIterable ==
    /\ gImpl = "markdown"
    /\ gpc = "call"
    /\ commentsType \notin {"array", "string"}
    /\ GroupThrow(GroupTypeError)

ForOfBegin ==
    /\ gImpl = "markdown"
    /\ gpc = "call"
    /\ commentsType \in {"array", "string"}
    /\ GroupBegin

InForOf == gImpl = "markdown" /\ gpc = "reduce" /\ gi <= Len(comments)

ForOfPush ==
    /\ InForOf
    /\ comments[gi].kind # "null"
    /\ HasOwn(WithGroup(acc, ToPropertyKey(comments[gi].path)),
              ToPropertyKey(comments[gi].path))
    /\ GroupPush(ToPropertyKey(comments[gi].path))

\* comment.path of a null element, or push of an inherited function
ForOfThrows ==
    /\ InForOf
    /\ \/ comments[gi].kind = "null"
       \/ ~HasOwn(WithGroup(acc, ToPropertyKey(comments[gi].path)),
                  ToPropertyKey(comments[gi].path))
    /\ GroupThrow(GroupTypeError)

SortValuesAndReturn ==
    /\ gImpl = "markdown"
    /\ gpc = "reduce"
    /\ gi > Len(comments)
    /\ GroupReturn

NextGroup ==
    \/ ThrowNotArray
    \/ ReduceBegin
    \/ ReduceDrop
    \/ ReducePush
    \/ ReducePushThrows
    \/ SortAndReturn
    \/ ForOfNotIterable
    \/ ForOfBegin
    \/ ForOfPush
    \/ ForOfThrows
    \/ SortValuesAndReturn

SpecGroup == InitGroup /\ [][NextGroup]_vars


\* ------------------------------------------------------------------------
\* C12, C14, C15, C16
\* ------------------------------------------------------------------------

GroupsReturned == gpc = "done" /\ grouped.kind = "groups"

Ids(items) == [k \in 1..Len(items) |-> items[k].id]

\* C12: a call of groupByFile whose argument is not an array (null, undefined,
\* an object, a string) ends by throwing an error, with nothing grouped and no
\* mapping returned.
C12_NonArrayThrows ==
    (gpc = "done" /\ commentsType # "array") =>
        (Throws(grouped) /\ acc = <<>>)

\* C14: in every group of a returned mapping the comments stand in ascending
\* order of their sort key, and comments of equal key stand in the order they
\* had in the argument.
C14_GroupsSortedStable ==
    GroupsReturned =>
        \A g \in 1..Len(grouped.groups) :
            LET items == grouped.groups[g].items
            IN  \A k \in 1..(Len(items) - 1) :
                    \/ getCommentLineNumber(items[k])
                         < getCommentLineNumber(items[k + 1])
                    \/ /\ getCommentLineNumber(items[k])
                            = getCommentLineNumber(items[k + 1])
                       /\ items[k].id < items[k + 1].id

\* Comments of keys 5, 5, 2 on one path came back in the order 3, 1, 2.
C14_Witness ==
    /\ GroupsReturned
    /\ \E g \in 1..Len(grouped.groups) :
           LET items == grouped.groups[g].items
           IN  /\ Ids(items) = <<3, 1, 2>>
               /\ [k \in 1..3 |-> getCommentLineNumber(items[k])] = <<2, 5, 5>>

LacksPath(comment) ==
    comment.kind = "object" /\ ~TruthyPath(comment.path)

InGroup(o, key, comment) ==
    \E g \in 1..Len(o) :
        /\ o[g].key = key
        /\ \E k \in 1..Len(o[g].items) : o[g].items[k] = comment

InSomeGroup(o, comment) ==
    \E g \in 1..Len(o) : InGroup(o, o[g].key, comment)

\* C15: a call of groupByFile on an array of comments some of which lack a path
\* (absent, null or empty) returns a mapping: the comments without path are in
\* no group, no key "undefined", "null" or "" exists, every comment with a path
\* is in the group of its path, and one diagnostic was emitted per comment
\* dropped.
C15_PathlessDropped ==
    ( /\ gpc = "done"
      /\ commentsType = "array"
      /\ \A k \in 1..Len(comments) :
             /\ comments[k].kind = "object"
             /\ comments[k].path.s \notin ObjectPrototypeKeys
      /\ \E k \in 1..Len(comments) : LacksPath(comments[k]) ) =>
        ( /\ grouped.kind = "groups"
          /\ \A g \in 1..Len(grouped.groups) :
                 grouped.groups[g].key \notin {"undefined", "null", ""}
          /\ \A k \in 1..Len(comments) :
                 IF LacksPath(comments[k])
                 THEN ~InSomeGroup(grouped.groups, comments[k])
                 ELSE InGroup(grouped.groups, comments[k].path.s, comments[k])
          /\ Len(warnings)
               = Cardinality({k \in 1..Len(comments) : LacksPath(comments[k])}) )

Usable(x) == x.t = "number" /\ x.v > 0

\* The key the specification gives a comment
SortKey(comment) ==
    IF Usable(comment.line) THEN comment.line.v
    ELSE IF Usable(comment.original_line) THEN comment.original_line.v
    ELSE 0

\* C16: the sort key of a comment is its line if that is a truthy number,
\* otherwise its original_line if that is a truthy number, otherwise 0; it is
\* a natural number for every comment, absent and null fields included, and
\* the returned groups are ordered by it.
C16_SortKeyFallsBack ==
    /\ \A k \in 1..Len(comments) :
           /\ getCommentLineNumber(comments[k]) = SortKey(comments[k])
           /\ getCommentLineNumber(comments[k]) \in Nat
    /\ GroupsReturned =>
           \A g \in 1..Len(grouped.groups) :
               LET items == grouped.groups[g].items
               IN  \A k \in 1..(Len(items) - 1) :
                       SortKey(items[k]) <= SortKey(items[k + 1])

\* A group holds a comment with neither number (key 0) before one that has
\* only original_line, before one keyed by line although original_line is
\* greater.
C16_Witness ==
    /\ GroupsReturned
    /\ \E g \in 1..Len(grouped.groups) :
           LET items == grouped.groups[g].items
           IN  /\ Len(items) = 3
               /\ ~Usable(items[1].line) /\ ~Usable(items[1].original_line)
               /\ Usable(items[2].line) /\ Usable(items[2].original_line)
               /\ items[2].line.v < items[2].original_line.v
               /\ ~Usable(items[3].line) /\ Usable(items[3].original_line)


\* ------------------------------------------------------------------------
\* C17, C18
\* ------------------------------------------------------------------------

\* The header that governs physical line j, 0 when there is none above it.
HeaderOf(L, j) == IF HeadersAbove(L, j) = {} THEN 0 ELSE LastHeader(L, j)

\* A counter is 0 at line j when nothing set it to another value (no header
\* above, or a header whose start is 0) and no line has advanced it since. A
\* counter that is 0 is advanced by the lines of its own kind only.
OldIsZero(L, j) ==
    /\ HeaderOf(L, j) # 0 => OldStart(L, HeaderOf(L, j)) = 0
    /\ Since(L, HeaderOf(L, j), j, {"remove"}) = 0

NewIsZero(L, j) ==
    /\ HeaderOf(L, j) # 0 => NewStart(L, HeaderOf(L, j)) = 0
    /\ Since(L, HeaderOf(L, j), j, {"add"}) = 0

NeverInitialised(L, j) == HeadersAbove(L, j) = {}

AddedRecord(nums) == nums.new.t = "number" /\ nums.old = JSEmpty
RemovedRecord(nums) == nums.old.t = "number" /\ nums.new = JSEmpty

CellOf(x) == IF x.t = "number" THEN NumberToString(x.v) ELSE <<>>

\* Every row shows the cells of its record, the empty ones empty, and the
\* glyph of its type.
RowsShowRecords ==
    (pc = "done" /\ html.kind = "table") =>
        \A m \in 1..Len(html.rows) :
            /\ html.rows[m].marker = MarkerOf(lineTypes[m])
            /\ html.rows[m].old = CellOf(lineNumbers[m].old)
            /\ html.rows[m].new = CellOf(lineNumbers[m].new)

\* C17 as stated: an Added record has a new number and an empty old one, a
\* Removed record an old number and an empty new one, a Context record has
\* both numbers or an empty value for a counter that no hunk header above the
\* line has initialised; every row renders the cells of its record with the
\* glyph of its type.
C17_RecordsByType ==
    LET L == SplitLines(patch)
    IN  /\ pc = "loop" =>
               \A m \in 1..Len(lineNumbers) :
                   LET j == PhysicalIndex(L, m)
                       nums == lineNumbers[m]
                   IN  /\ lineTypes[m] = "add" => AddedRecord(nums)
                       /\ lineTypes[m] = "remove" => RemovedRecord(nums)
                       /\ lineTypes[m] = "context" =>
                              /\ nums.old.t = "number"
                                   \/ (nums.old = JSEmpty /\ NeverInitialised(L, j))
                              /\ nums.new.t = "number"
                                   \/ (nums.new = JSEmpty /\ NeverInitialised(L, j))
        /\ RowsShowRecords

\* C17 amended: a Context record has, for each counter, its number when the
\* counter is not 0 and an empty value when it is 0, whether no header has set
\* it or a header whose start is 0 has; the rest as stated.
C17_RecordsByTypeZeroEmpty ==
    LET L == SplitLines(patch)
    IN  /\ pc = "loop" =>
               \A m \in 1..Len(lineNumbers) :
                   LET j == PhysicalIndex(L, m)
                       nums == lineNumbers[m]
                   IN  /\ lineTypes[m] = "add" => AddedRecord(nums)
                       /\ lineTypes[m] = "remove" => RemovedRecord(nums)
                       /\ lineTypes[m] = "context" =>
                              /\ IF OldIsZero(L, j)
                                 THEN nums.old = JSEmpty
                                 ELSE nums.old.t = "number" /\ nums.old.v > 0
                              /\ IF NewIsZero(L, j)
                                 THEN nums.new = JSEmpty
                                 ELSE nums.new.t = "number" /\ nums.new.v > 0
        /\ RowsShowRecords

\* A table with a Context row under a header whose old start is 0: its old
\* cell is empty, its new cell a number.
C17_Witness ==
    /\ pc = "done"
    /\ html.kind = "table"
    /\ LET L == SplitLines(patch)
       IN  \E m \in 1..Len(html.rows) :
               /\ lineTypes[m] = "context"
               /\ ~NeverInitialised(L, PhysicalIndex(L, m))
               /\ html.rows[m].old = <<>>
               /\ html.rows[m].new # <<>>

\* C18: in every row of a rendered table each line-number cell holds the empty
\* string or a line number, never "0" and never "NaN".
C18_NoZeroCell ==
    (pc = "done" /\ html.kind = "table") =>
        \A m \in 1..Len(html.rows) :
            /\ html.rows[m].old \notin {<<"0">>, <<"N", "a", "N">>}
            /\ html.rows[m].new \notin {<<"0">>, <<"N", "a", "N">>}


\* ------------------------------------------------------------------------
\* C19, C20
\* ------------------------------------------------------------------------

\* The opening tags that are open at the n-th line separator of the blob,
\* outermost first.
RECURSIVE OpenAtNth(_, _, _, _)
OpenAtNth(h, i, open, n) ==
    IF i > Len(h) THEN open
    ELSE IF h[i] = NL
    THEN (IF n = 1 THEN open ELSE OpenAtNth(h, i + 1, open, n - 1))
    ELSE IF TagLen(h, i) > 0
    THEN OpenAtNth(h, i + TagLen(h, i),
                   IF IsClosingTag(h, i)
                   THEN (IF Len(open) = 0 THEN open
                         ELSE SubSeq(open, 1, Len(open) - 1))
                   ELSE Append(open, SubSeq(h, i, i + TagLen(h, i) - 1)),
                   n)
    ELSE OpenAtNth(h, i + 1, open, n)

BeginsWith(s, prefix) ==
    Len(prefix) <= Len(s) /\ SubSeq(s, 1, Len(prefix)) = prefix

\* s ends with exactly the text of n closing tags after its first m characters
EndsWithClosings(s, m, n) ==
    /\ Len(s) = m + n * Len(SpanClose)
    /\ \A d \in 0..(n - 1) :
           SubSeq(s, m + d * Len(SpanClose) + 1, m + (d + 1) * Len(SpanClose))
               = SpanClose

\* C19: the step taken at a newline ends the current fragment with one closing
\* tag per entry of the tag stack and pushes it, starts the next fragment with
\* the opening tags of the stack in the order they were opened, and leaves the
\* stack as it was; so every fragment after the first begins with exactly the
\* tags that are open in the blob at the separator before it.
C19_NewlineClosesAndReopens ==
    /\ [][(Scanning /\ AtNewline(sp)) =>
            /\ sp'.tagStack = sp.tagStack
            /\ Len(sp'.lines) = Len(sp.lines) + 1
            /\ SubSeq(sp'.lines, 1, Len(sp.lines)) = sp.lines
            /\ BeginsWith(sp'.lines[Len(sp'.lines)], sp.currentLine)
            /\ EndsWithClosings(sp'.lines[Len(sp'.lines)], Len(sp.currentLine),
                                Len(sp.tagStack))
            /\ sp'.currentLine = Concat(sp.tagStack)]_vars
    /\ [](spc = "done" =>
            \A k \in 2..Len(fragments) :
                BeginsWith(fragments[k],
                           Concat(OpenAtNth(sp.html, 1, <<>>, k - 1))))

\* Two different tags were open, one within the other, at a separator, and
\* the fragment after it begins with both in the order they were opened.
C19_Witness ==
    /\ spc = "done"
    /\ Len(fragments) >= 2
    /\ OpenAtNth(sp.html, 1, <<>>, 1) = <<SpanOpen, SpanOpenOther>>
    /\ BeginsWith(fragments[2], SpanOpen \o SpanOpenOther)

\* Some closing tag of the blob is met while no tag is open.
RECURSIVE StrayCloseFrom(_, _, _)
StrayCloseFrom(h, i, depth) ==
    IF i > Len(h) THEN FALSE
    ELSE IF TagLen(h, i) > 0
    THEN IF IsClosingTag(h, i)
         THEN depth = 0 \/ StrayCloseFrom(h, i + TagLen(h, i), depth - 1)
         ELSE StrayCloseFrom(h, i + TagLen(h, i), depth + 1)
    ELSE StrayCloseFrom(h, i + 1, depth)

HasStrayClose(h) == StrayCloseFrom(h, 1, 0)

\* C20: the step taken at a closing tag while the tag stack is empty appends
\* the tag as it stands to the current fragment, leaves the stack empty and
\* the fragments pushed so far alone, and moves past the tag; the scan of a
\* blob with such a tag goes on to its end and returns the fragments.
C20_StrayCloseIsLiteral ==
    /\ [][(Scanning /\ AtTag(sp) /\ IsClosingTag(sp.html, sp.i)
             /\ sp.tagStack = <<>>) =>
            /\ sp'.tagStack = <<>>
            /\ sp'.currentLine
                 = sp.currentLine
                     \o SubSeq(sp.html, sp.i, sp.i + TagLen(sp.html, sp.i) - 1)
            /\ sp'.lines = sp.lines
            /\ sp'.i = sp.i + TagLen(sp.html, sp.i)
            /\ spc' = "scan"]_vars
    /\ (HasStrayClose(sp.html) => <>(spc = "done"))

\* The blob began with a closing tag, and the call returned it within its
\* first fragment.
C20_Witness ==
    /\ spc = "done"
    /\ BeginsWith(sp.html, SpanClose)
    /\ Len(fragments) >= 1
    /\ BeginsWith(fragments[1], SpanClose)


\* ------------------------------------------------------------------------
\* formatDiffForTable called again and again, one highlighter installed
\* ------------------------------------------------------------------------

MaxCalls == 3

\* Highlighters that return the same for the same code: one that marks
\* nothing, one that wraps the first character, one that wraps the whole
\* block (its lines too), one that throws.
Highlighters == {"plain", "token", "block", "throwing"}

HighlightWith(h, code) ==
    IF h = "token" /\ Len(code) > 0
    THEN SpanOpen \o escapeHtml(SubSeq(code, 1, 1)) \o SpanClose
             \o escapeHtml(SubSeq(code, 2, Len(code)))
    ELSE IF h = "block" /\ Len(code) > 0
    THEN SpanOpen \o escapeHtml(code) \o SpanClose
    ELSE escapeHtml(code)

AgainPatches ==
    {<<>>,
     LineAdd,
     LineAddEscaped,
     JoinLines(<<LineFileAdd, LineFileRemove>>),
     JoinLines(<<LineContextBlank, LineContext>>),
     JoinLines(<<LineHunk, LineRemove, LineAdd, LineContext>>),
     JoinLines(<<LineHunk, LineRemove, LineHunkBad, LineContext>>)}

InitAgain ==
    /\ pc = "start"
    /\ patch \in AgainPatches
    /\ DiffLocalsInit
    /\ SplitIdle
    /\ patchType = "string"
    /\ hljs \in Highlighters
    /\ returned = <<>>
    /\ GroupIdle
    /\ AppIdle

HighlightInstalled ==
    /\ hljs # "throwing"
    /\ Highlighted(HighlightWith(hljs, JoinLines(codeLines)))

HighlightInstalledThrows ==
    /\ hljs = "throwing"
    /\ HighlightThrows

\* CountersOfNewCall with the counters the last call ended with
CountersLeftByLastCall == Counters

\* let oldLine = 0; let newLine = 0;
CountersOfNewCall == [oldLine |-> 0, newLine |-> 0]

\* The caller has the result and calls again: the parameters and locals of the
\* new call are new ones.
CallAgain ==
    /\ pc = "done"
    /\ Len(returned) + 1 < MaxCalls
    /\ returned' = Append(returned, [patch |-> patch, html |-> html])
    /\ patch' \in AgainPatches
    /\ pc' = "start"
    /\ lines' = <<>>
    /\ idx' = 1
    /\ oldLine' = CountersOfNewCall.oldLine
    /\ newLine' = CountersOfNewCall.newLine
    /\ codeLines' = <<>>
    /\ lineTypes' = <<>>
    /\ lineNumbers' = <<>>
    /\ highlighted' = <<>>
    /\ hlOutcome' = "none"
    /\ hlCalls' = 0
    /\ highlightedLines' = <<>>
    /\ html' = NotReturned
    /\ UNCHANGED <<splitVars, patchType, hljs, groupVars, appVars>>

NextAgain ==
    \/ ReturnNoDiff
    \/ SplitPatch
    \/ ClassifyHunk
    \/ ClassifyFileHeader
    \/ ClassifyAdd
    \/ ClassifyRemove
    \/ ClassifyContext
    \/ HighlightNothing
    \/ HighlightInstalled
    \/ HighlightInstalledThrows
    \/ BuildTable
    \/ CallAgain

SpecAgain == InitAgain /\ [][NextAgain]_vars


\* ------------------------------------------------------------------------
\* C13
\* ------------------------------------------------------------------------

\* C13: with a highlighter that returns the same for the same code, a call
\* returns what every earlier call with the same patch returned, whatever
\* calls with other patches were made in between.
C13_SamePatchSameOutput ==
    pc = "done" =>
        \A k \in 1..Len(returned) :
            returned[k].patch = patch => returned[k].html = html

\* A table was returned for a patch, another patch was rendered, and the first
\* patch has been rendered again.
C13_Witness ==
    /\ pc = "done"
    /\ Len(returned) = 2
    /\ returned[1].patch = patch
    /\ returned[1].html.kind = "table"
    /\ returned[2].patch # patch
    /\ returned[2].html.kind = "table"
    /\ html.kind = "table"


\* ------------------------------------------------------------------------
\* C21
\* ------------------------------------------------------------------------

\* C21: when the scan has reached the end of the input with a current fragment
\* that is not empty or a tag stack that is not empty, the call returns the
\* fragments pushed so far and, last, the current fragment followed by one
\* closing tag per tag still open.
C21_EndOfInputClosesOpenTags ==
    (spc = "done" /\ (sp.currentLine # <<>> \/ sp.tagStack # <<>>)) =>
        /\ Len(fragments) = Len(sp.lines) + 1
        /\ SubSeq(fragments, 1, Len(sp.lines)) = sp.lines
        /\ BeginsWith(fragments[Len(fragments)], sp.currentLine)
        /\ EndsWithClosings(fragments[Len(fragments)], Len(sp.currentLine),
                            Len(sp.tagStack))


\* ------------------------------------------------------------------------
\* C26
\* ------------------------------------------------------------------------

\* The characters of the fragments that belong to no wrapper tag, in fragment
\* order.
FragmentsText(fs) == Concat([k \in 1..Len(fs) |-> TextOf(fs[k])])

RECURSIVE WithoutNewlines(_)
WithoutNewlines(s) ==
    IF s = <<>> THEN <<>>
    ELSE (IF Head(s) = NL THEN <<>> ELSE <<Head(s)>>) \o WithoutNewlines(Tail(s))

\* Every "<span" and "</span" of the blob begins a wrapper tag: none is left
\* without the ">" that would end it.
EverySpanBeginsTag(h) ==
    \A i \in 1..Len(h) :
        ( /\ HasAt(h, i, <<"<">>)
          /\ \/ HasAt(h, i + 1, SpanWord)
             \/ HasAt(h, i + 1, <<"/">> \o SpanWord) ) => TagLen(h, i) > 0

\* C26 as stated: for every blob the text of the fragments is the text of the
\* blob without its newlines.
C26_TextPreserved ==
    spc = "done" =>
        FragmentsText(fragments) = WithoutNewlines(TextOf(sp.html))

\* C26 amended: the same for every blob in which every "<span" and "</span"
\* begins a wrapper tag; and, for any blob, the step taken at a character that
\* is neither a newline nor the beginning of a wrapper tag, a "<" included,
\* appends that character to the current fragment and changes nothing else.
C26_TextPreservedWhenSpansAreTags ==
    /\ [](( spc = "done" /\ EverySpanBeginsTag(sp.html)) =>
            FragmentsText(fragments) = WithoutNewlines(TextOf(sp.html)))
    /\ [][(Scanning /\ AtChar(sp)) =>
            /\ sp'.currentLine = Append(sp.currentLine, sp.html[sp.i])
            /\ sp'.lines = sp.lines
            /\ sp'.tagStack = sp.tagStack
            /\ sp'.i = sp.i + 1]_vars

\* A blob with a "<" that begins no tag on each of the two lines of a wrapper
\* element: both came back, each in its fragment.
C26_Witness ==
    /\ spc = "done"
    /\ sp.html = <<"<">> \o SpanOpen \o <<"a", NL, "<", "b">> \o SpanClose \o <<"<">>
    /\ Len(fragments) = 2
    /\ TextOf(fragments[1]) = <<"<", "a">>
    /\ TextOf(fragments[2]) = <<"<", "b", "<">>


\* ------------------------------------------------------------------------
\* C27
\* ------------------------------------------------------------------------

\* The wrapper tags of h from position i on are well nested, depth of them
\* being open at i: no closing tag comes at depth 0, none is open at the end.
RECURSIVE WellNestedFrom(_, _, _)
WellNestedFrom(h, i, depth) ==
    IF i > Len(h) THEN depth = 0
    ELSE IF TagLen(h, i) > 0
    THEN IF IsClosingTag(h, i)
         THEN depth > 0 /\ WellNestedFrom(h, i + TagLen(h, i), depth - 1)
         ELSE WellNestedFrom(h, i + TagLen(h, i), depth + 1)
    ELSE WellNestedFrom(h, i + 1, depth)

WellNested(h) == WellNestedFrom(h, 1, 0)

\* The wrapper tags of the given kind that begin before position upto.
RECURSIVE TagsBefore(_, _, _, _)
TagsBefore(h, i, closing, upto) ==
    IF i > Len(h) \/ i >= upto THEN 0
    ELSE IF TagLen(h, i) > 0
    THEN (IF IsClosingTag(h, i) = closing THEN 1 ELSE 0)
             + TagsBefore(h, i + TagLen(h, i), closing, upto)
    ELSE TagsBefore(h, i + 1, closing, upto)

OpenBefore(h, upto) ==
    TagsBefore(h, 1, FALSE, upto) - TagsBefore(h, 1, TRUE, upto)

\* C27: for a blob whose wrapper tags are well nested, at every point of the
\* scan the depth of the tag stack is the number of wrapper tags open in the
\* blob at that point, the stack is empty once the whole blob is scanned, and
\* every fragment returned is itself well nested.
C27_WellNestedStaysBalanced ==
    (spc \in {"scan", "done"} /\ WellNested(sp.html)) =>
        /\ Len(sp.tagStack) = OpenBefore(sp.html, sp.i)
        /\ sp.i > Len(sp.html) => sp.tagStack = <<>>
        /\ spc = "done" =>
               \A k \in 1..Len(fragments) :
                   /\ WellNested(fragments[k])
                   /\ OpeningTags(fragments[k]) = ClosingTagCount(fragments[k])

\* The nested blob, well nested, with two elements open at its first line
\* separator and one at its second, came back as three fragments.
C27_Witness ==
    /\ spc = "done"
    /\ sp.html = NestedBlob
    /\ WellNested(sp.html)
    /\ Len(OpenAtNth(sp.html, 1, <<>>, 1)) = 2
    /\ Len(OpenAtNth(sp.html, 1, <<>>, 2)) = 1
    /\ Len(fragments) = 3


\* ------------------------------------------------------------------------
\* C22
\* ------------------------------------------------------------------------

IsFileHeaderText(line) ==
    StartsWith(line, <<"+", "+", "+">>) \/ StartsWith(line, <<"-", "-", "-">>)

WithoutFileHeaders(L) == SelectSeq(L, LAMBDA line : ~IsFileHeaderText(line))

\* The records and the counters the loop arrives at on lines none of which is
\* a file header.
RECURSIVE RecordsFrom(_, _, _, _)
RecordsFrom(L, k, c, recs) ==
    IF k > Len(L) THEN [recs |-> recs, c |-> c]
    ELSE IF StartsWith(L[k], <<"@", "@">>)
    THEN RecordsFrom(L, k + 1, HunkCounters(L[k], c), recs)
    ELSE LET r == IF KindOf(L[k]) = "add" THEN AddLine(L[k], c)
                  ELSE IF KindOf(L[k]) = "remove" THEN RemoveLine(L[k], c)
                  ELSE ContextLine(L[k], c)
         IN  RecordsFrom(L, k + 1, r.c,
                         Append(recs, [type |-> r.type, code |-> r.code,
                                       nums |-> r.nums]))

RecordsOf(L) == RecordsFrom(L, 1, [oldLine |-> 0, newLine |-> 0], <<>>)

LoopRecords ==
    [k \in 1..Len(lineNumbers) |->
        [type |-> lineTypes[k], code |-> codeLines[k], nums |-> lineNumbers[k]]]

\* C22: the step taken at a line that starts with "+++" or "---" adds no
\* record and leaves both counters as they are; and when the loop is over, the
\* records and the counters are those of the patch without such lines.
C22_FileHeadersLeaveNoTrace ==
    /\ [][(InLoop /\ IsFileHeaderText(lines[idx])) =>
            /\ oldLine' = oldLine
            /\ newLine' = newLine
            /\ lineNumbers' = lineNumbers
            /\ lineTypes' = lineTypes
            /\ codeLines' = codeLines
            /\ idx' = idx + 1]_vars
    /\ []((pc = "table" \/ (pc = "done" /\ html.kind = "table")) =>
            LET expected == RecordsOf(WithoutFileHeaders(SplitLines(patch)))
            IN  /\ LoopRecords = expected.recs
                /\ Counters = expected.c
                /\ (pc = "done" => Len(html.rows) <= Len(expected.recs)))

\* A "---" line stood between a removed line and a context line of one hunk:
\* the table has the two rows, numbered 1 and 2.
C22_Witness ==
    /\ pc = "done"
    /\ patch = JoinLines(<<LineHunk, LineRemove, LineFileRemove, LineContext>>)
    /\ html.kind = "table"
    /\ Len(html.rows) = 2
    /\ html.rows[1].old = <<"1">>
    /\ html.rows[2].old = <<"2">>


\* ------------------------------------------------------------------------
\* C23
\* ------------------------------------------------------------------------

AtContextLine ==
    InLoop /\ ~IsHeaderLine(lines[idx]) /\ KindOf(lines[idx]) = "context"

\* What the step at a context line does with one counter: shown and advanced
\* by one when it is not 0, shown as empty and left at 0 when it is.
ShownAndAdvanced(counter, cell, counterAfter) ==
    IF counter # 0
    THEN cell = JSNum(counter) /\ counterAfter = counter + 1
    ELSE cell = JSEmpty /\ counterAfter = 0

\* At most one leading space is taken from the line.
OneSpaceStripped(line, code) ==
    IF Len(line) > 0 /\ line[1] = " "
    THEN code = SubSeq(line, 2, Len(line))
    ELSE code = line

ContextStep ==
    /\ Len(lineNumbers') = Len(lineNumbers) + 1
    /\ lineTypes'[Len(lineTypes')] = "context"
    /\ ShownAndAdvanced(oldLine, lineNumbers'[Len(lineNumbers')].old, oldLine')
    /\ ShownAndAdvanced(newLine, lineNumbers'[Len(lineNumbers')].new, newLine')
    /\ OneSpaceStripped(lines[idx], codeLines'[Len(codeLines')])

BothEmptyAndZero ==
    /\ lineNumbers'[Len(lineNumbers')] = [old |-> JSEmpty, new |-> JSEmpty]
    /\ oldLine' = 0
    /\ newLine' = 0

\* C23 as stated: the step at a context line handles each counter on its own,
\* strips at most one leading space, and, when no hunk header stands above the
\* line, records two empty numbers and leaves both counters at 0.
C23_ContextCounters ==
    [][AtContextLine =>
         /\ ContextStep
         /\ NeverInitialised(lines, idx) => BothEmptyAndZero]_vars

\* C23 amended: the last part holds when neither a hunk header nor an added
\* or removed line stands above the line.
C23_ContextCountersWhenNothingAbove ==
    [][AtContextLine =>
         /\ ContextStep
         /\ ( /\ NeverInitialised(lines, idx)
              /\ Since(lines, 0, idx, {"add", "remove"}) = 0 ) =>
                BothEmptyAndZero]_vars

\* The patch "  c", header, "  c" is rendered: its first row has two empty
\* numbers, its second the numbers of the header, and each shows " c".
C23_Witness ==
    /\ pc = "done"
    /\ patch = JoinLines(<<LineContextIndented, LineHunk, LineContextIndented>>)
    /\ html.kind = "table"
    /\ Len(html.rows) = 2
    /\ html.rows[1].old = <<>> /\ html.rows[1].new = <<>>
    /\ html.rows[2].old = <<"1">> /\ html.rows[2].new = <<"1">>
    /\ codeLines = <<<<" ", "c">>, <<" ", "c">>>>
    /\ oldLine = 2 /\ newLine = 2


\* ------------------------------------------------------------------------
\* C24
\* ------------------------------------------------------------------------

\* C24: a call has invoked the highlighter not at all before its loop is over,
\* when it returns the placeholder, and when the loop left no code line (the
\* fragment list is then empty); and exactly once when the loop left code
\* lines, and what the highlighter returned then is a markup of those lines
\* joined by "\n".
C24_HighlighterCalledOnce ==
    /\ pc \in {"start", "loop"} => hlCalls = 0
    /\ (pc = "done" /\ html = NoDiff) => hlCalls = 0
    /\ (pc \in {"table", "done"} /\ html # NoDiff) =>
           IF Len(codeLines) = 0
           THEN hlCalls = 0 /\ highlightedLines = <<>>
           ELSE /\ hlCalls = 1
                /\ hlOutcome \in {"value", "threw"}
                /\ hlOutcome = "value" =>
                       TextOf(highlighted) = AsEntities(JoinLines(codeLines))

\* A table of three code lines was returned after one call of the highlighter
\* on the three.
C24_Witness ==
    /\ pc = "done"
    /\ html.kind = "table"
    /\ Len(codeLines) = 3
    /\ hlOutcome = "value"
    /\ hlCalls = 1
    /\ NewlineCount(highlighted) = 2


\* ------------------------------------------------------------------------
\* C28
\* ------------------------------------------------------------------------

PathsOf(cs) == {cs[k].path.s : k \in 1..Len(cs)}

\* C28: a call of groupByFile on an array of comments each of which has a path
\* returns a mapping whose keys are the paths that occur, one key each, the
\* group of a path holding the comments of that path and no other, each once.
C28_GroupsPartitionByPath ==
    ( /\ gpc = "done"
      /\ commentsType = "array"
      /\ \A k \in 1..Len(comments) :
             comments[k].kind = "object" /\ TruthyPath(comments[k].path) ) =>
        ( /\ grouped.kind = "groups"
          /\ {grouped.groups[g].key : g \in 1..Len(grouped.groups)}
               = PathsOf(comments)
          /\ \A g, h \in 1..Len(grouped.groups) :
                 grouped.groups[g].key = grouped.groups[h].key => g = h
          /\ \A g \in 1..Len(grouped.groups) :
                 LET items == grouped.groups[g].items
                 IN  /\ {items[k].id : k \in 1..Len(items)}
                          = {k \in 1..Len(comments) :
                                comments[k].path.s = grouped.groups[g].key}
                     /\ \A k \in 1..Len(items) : items[k] = comments[items[k].id]
                     /\ \A j, k \in 1..Len(items) :
                            items[j].id = items[k].id => j = k )


\* ------------------------------------------------------------------------
\* fetchAll of the two server files
\* ------------------------------------------------------------------------

MaxPages == 3

\* const ITEMS_PER_PAGE = 100 (part_000); part_001 writes 100
ITEMS_PER_PAGE == 100

\* The list methods the servers hand to fetchAll.
Methods ==
    {"issues.listComments", "pulls.listReviewComments", "pulls.listReviews",
     "pulls.listFiles"}

\* Item k of page p of the source.
Items(p, n) == [k \in 1..n |-> [page |-> p, k |-> k]]

\* The lengths a page can come back with: a short page of 0, 1, 50 or 99
\* items, or a full one (as long as more pages are to come).
PageLengths(p) ==
    {0, 1, 50, ITEMS_PER_PAGE - 1}
        \cup (IF p < MaxPages THEN {ITEMS_PER_PAGE} ELSE {})

\* method({...params, per_page: ITEMS_PER_PAGE, page})
Request(m, p) == [method |-> m, per_page |-> ITEMS_PER_PAGE, page |-> p]

\* IsLastPage taking only an empty page for the last
IsLastPageWhenEmpty(data) == Len(data) = 0

\* if (data.length < ITEMS_PER_PAGE) break
IsLastPage(data) == Len(data) < ITEMS_PER_PAGE

InitFetch ==
    /\ pc = "idle"
    /\ patch = <<>>
    /\ DiffLocalsInit
    /\ SplitIdle
    /\ patchType = "string"
    /\ FirstCall
    /\ GroupIdle
    /\ fImpl \in {"part_000", "part_001"}
    /\ fpc = "call"
    /\ method \in Methods
    /\ page = 1
    /\ results = <<>>
    /\ requests = <<>>
    /\ received = <<>>
    /\ logged = <<>>
    /\ fetched = [kind |-> "none", results |-> <<>>]
    /\ PanelIdle

\* The call runs to its first await: the request for page 1 is made.
FetchCall ==
    /\ fpc = "call"
    /\ requests' = Append(requests, Request(method, page))
    /\ fpc' = "await"
    /\ UNCHANGED <<fImpl, method, page, results, received, logged, fetched,
                   nonFetchVars>>

\* A page comes back that is not the last: results.push(...data), page++, and
\* the loop makes the next request.
FetchPage ==
    /\ fpc = "await"
    /\ \E n \in PageLengths(page) :
           /\ ~IsLastPage(Items(page, n))
           /\ received' = Append(received, Items(page, n))
           /\ results' = results \o Items(page, n)
    /\ page' = page + 1
    /\ requests' = Append(requests, Request(method, page'))
    /\ UNCHANGED <<fImpl, fpc, method, logged, fetched, nonFetchVars>>

\* The last page comes back: results.push(...data), break, return results
\* (part_000 logs the count before).
FetchLastPage ==
    /\ fpc = "await"
    /\ \E n \in PageLengths(page) :
           /\ IsLastPage(Items(page, n))
           /\ received' = Append(received, Items(page, n))
           /\ results' = results \o Items(page, n)
    /\ logged' = IF fImpl = "part_000" THEN Append(logged, "INFO") ELSE logged
    /\ fetched' = [kind |-> "results", results |-> results']
    /\ fpc' = "done"
    /\ UNCHANGED <<fImpl, method, page, requests, nonFetchVars>>

\* The request fails: part_000 logs and rethrows, part_001 has no try and the
\* rejection goes to the caller as it is.
FetchFails ==
    /\ fpc = "await"
    /\ logged' = IF fImpl = "part_000" THEN Append(logged, "ERROR") ELSE logged
    /\ fetched' = [kind |-> "Error", results |-> <<>>]
    /\ fpc' = "done"
    /\ UNCHANGED <<fImpl, method, page, results, requests, received,
                   nonFetchVars>>

NextFetch ==
    \/ FetchCall
    \/ FetchPage
    \/ FetchLastPage
    \/ FetchFails

SpecFetch == InitFetch /\ [][NextFetch]_vars

\* A request that was made is answered, with a page or with an error.
SpecFetchFair == SpecFetch /\ WF_vars(NextFetch)


\* ------------------------------------------------------------------------
\* C25
\* ------------------------------------------------------------------------

\* C25: the requests made are those for pages 1, 2, 3, ..., each for 100
\* items, one outstanding at a time; no request follows a page of fewer than
\* 100 items; the call ends, and it ends either by returning the pages
\* received, concatenated in page order, the last of them short, or, when a
\* request failed, by throwing with nothing returned.
C25_FetchAllPaginates ==
    /\ [](\A k \in 1..Len(requests) :
              /\ requests[k].page = k
              /\ requests[k].per_page = 100
              /\ requests[k].method = method)
    /\ [](/\ Len(requests) - Len(received) \in {0, 1}
          /\ fpc = "await" => Len(requests) = Len(received) + 1)
    /\ [](\A k \in 1..Len(received) :
              /\ received[k] = Items(k, Len(received[k]))
              /\ Len(received[k]) < 100 => Len(requests) = k)
    /\ [](fpc = "done" =>
              \/ /\ fetched.kind = "results"
                 /\ Len(received) = Len(requests)
                 /\ Len(received[Len(received)]) < 100
                 /\ fetched.results = Concat(received)
              \/ /\ fetched.kind = "Error"
                 /\ fetched.results = <<>>
                 /\ Len(received) = Len(requests) - 1)
    /\ <>(fpc = "done")

\* Two full pages and a page of one item were requested and returned, 201
\* items in all.
C25_Witness ==
    /\ fpc = "done"
    /\ fetched.kind = "results"
    /\ Len(requests) = 3
    /\ Len(fetched.results) = 201
    /\ fetched.results[201] = [page |-> 3, k |-> 1]


\* ------------------------------------------------------------------------
\* The PR panels: URLs
\* ------------------------------------------------------------------------

MaxEvents == 4

\* A URL is the sequence of its pieces: the text between its slashes, and
\* white space at its ends. A piece of digits carries its number; a number
\* below zero is written with its sign, and is no piece of digits.
Piece(k, n) == [k |-> k, n |-> n]

\* A piece that ends in github.com (what stands before it plays no part).
Host == Piece("github.com", 0)
Owner == Piece("owner", 0)
Repo == Piece("repo", 0)
Pull == Piece("pull", 0)
Space == Piece(" ", 0)
Number(n) == Piece("number", n)

\* \d+
IsDigits(piece) == piece.k = "number" /\ piece.n >= 0

\* String.prototype.trim
RECURSIVE TrimStart(_)
TrimStart(u) ==
    IF Len(u) > 0 /\ u[1] = Space THEN TrimStart(Tail(u)) ELSE u

RECURSIVE TrimEnd(_)
TrimEnd(u) ==
    IF Len(u) > 0 /\ u[Len(u)] = Space
    THEN TrimEnd(SubSeq(u, 1, Len(u) - 1))
    ELSE u

Trim(u) == TrimEnd(TrimStart(u))

\* /github\.com\/([^\/]+)\/([^\/]+)\/pull\/(\d+)/ matching from piece i on
UrlMatchAt(u, i) ==
    /\ i >= 1
    /\ i + 4 <= Len(u)
    /\ u[i] = Host
    /\ u[i + 1] # Space
    /\ u[i + 2] # Space
    /\ u[i + 3] = Pull
    /\ IsDigits(u[i + 4])

\* Where url.match finds the pattern: the leftmost place.
UrlMatchIndex(u) ==
    IF \E i \in 1..Len(u) : UrlMatchAt(u, i)
    THEN CHOOSE i \in 1..Len(u) :
             UrlMatchAt(u, i) /\ \A j \in 1..(i - 1) : ~UrlMatchAt(u, j)
    ELSE 0

NotParsed == [null |-> TRUE, owner |-> Space, repo |-> Space, number |-> 0]

\* parseURL; number is the matched digits, here already as parseInt reads them
parseURL(u) ==
    LET i == UrlMatchIndex(u)
    IN  IF i = 0
        THEN NotParsed
        ELSE [null |-> FALSE, owner |-> u[i + 1], repo |-> u[i + 2],
              number |-> u[i + 4].n]

\* extractPRNumber
extractPRNumber(u) ==
    LET parsed == parseURL(u)
    IN  IF parsed.null
        THEN [null |-> TRUE, n |-> 0]
        ELSE [null |-> FALSE, n |-> parsed.number]

\* A number or null taken as a condition.
IsTruthyNumber(x) == ~x.null /\ x.n # 0

\* /\/pull\/\d+/ matching at piece j: a slash stands before it
PullMatchAt(u, j) ==
    /\ j >= 2
    /\ j + 1 <= Len(u)
    /\ u[j] = Pull
    /\ IsDigits(u[j + 1])

\* incrementPRNumber: url.replace(/\/pull\/\d+/, `/pull/${newPRNumber}`)
\* replaces the leftmost match
incrementPRNumber(u, increment) ==
    LET parsed == parseURL(u)
    IN  IF parsed.null
        THEN u
        ELSE LET newPRNumber == parsed.number + increment
                 j == CHOOSE j \in 2..Len(u) :
                          PullMatchAt(u, j)
                          /\ \A h \in 2..(j - 1) : ~PullMatchAt(u, h)
             IN  [u EXCEPT ![j + 1] = Number(newPRNumber)]

\* isValidGitHubPRUrl
isValidGitHubPRUrl(u) ==
    IF u = <<>> THEN FALSE ELSE ~parseURL(u).null

\* What the user types or pastes into the URL field.
UrlPR == <<Host, Owner, Repo, Pull, Number(1)>>
UrlNumberedRepo == <<Host, Pull, Number(1), Pull, Number(2)>>
UrlNoPR == <<Host, Owner, Repo>>
UrlPadded == <<Space, Host, Owner, Repo, Pull, Number(1), Space>>

TypedUrls == {UrlPR, UrlNumberedRepo, UrlNoPR, UrlPadded}

\* ------------------------------------------------------------------------
\* The PR panels: load, the refresh interval, propagation
\* ------------------------------------------------------------------------

\* data.comments.length + data.reviewComments.length of a response
CommentCounts == {2}

\* err.message of a failed fetchPR
ErrorMessages == {"Not Found"}

Response(u, c) == [null |-> FALSE, url |-> u, commentCount |-> c]

\* How a call of load on the text u goes up to its await: it returns at
\* once, it returns with the invalid-URL message, or it calls fetchPR.
LoadOutcome(u) ==
    IF Trim(u) = <<>> THEN "return"
    ELSE IF ~isValidGitHubPRUrl(u) THEN "invalid"
    ELSE "fetch"

\* The panels of a set in the order their effects run.
CallOrder(C) ==
    LET InC(q) == q \in C
    IN  SelectSeq([i \in 1..NumPanels |-> i], InC)

\* A call of load awaiting fetchPR; calls that are alike are told apart by
\* their number.
Awaiting(silent, isAutoLoad, u, others) ==
    [silent |-> silent, isAutoLoad |-> isAutoLoad, url |-> u,
     copy |-> 1 + Cardinality({l \in others :
                                  /\ l.silent = silent
                                  /\ l.isAutoLoad = isAutoLoad
                                  /\ l.url = u})]

\* Of the awaiting calls that are alike, the one taken to settle.
Settling(p) ==
    {l \in inflight[p] :
        \A m \in inflight[p] :
            (m.silent = l.silent /\ m.isAutoLoad = l.isAutoLoad
             /\ m.url = l.url) => m.copy <= l.copy}

\* The state of the panels that a call of load reads and writes.
PanelState(e, l, r, i, d) ==
    [error |-> e, loading |-> l, refreshing |-> r, inflight |-> i, ended |-> d]

\* load(silent, isAutoLoad) called in the panels C, whose URL fields hold u,
\* up to the await of each call; now is the panel state the calls find.
LoadCalls(C, silent, isAutoLoad, u, now) ==
    /\ started' =
           [k \in 1..Len(CallOrder(C)) |->
               [panel |-> CallOrder(C)[k], silent |-> silent,
                isAutoLoad |-> isAutoLoad, url |-> u[CallOrder(C)[k]],
                outcome |-> LoadOutcome(u[CallOrder(C)[k]])]]
    /\ error' =
           [q \in Panels |->
               IF q \in C /\ LoadOutcome(u[q]) = "invalid"
               THEN "Invalid GitHub PR URL"
               ELSE IF q \in C /\ LoadOutcome(u[q]) = "fetch"
               THEN ""
               ELSE now.error[q]]
    /\ loading' =
           [q \in Panels |->
               IF q \in C /\ LoadOutcome(u[q]) = "fetch" /\ ~silent
               THEN TRUE
               ELSE now.loading[q]]
    /\ refreshing' =
           [q \in Panels |->
               IF q \in C /\ LoadOutcome(u[q]) = "fetch" /\ silent
               THEN TRUE
               ELSE now.refreshing[q]]
    /\ inflight' =
           [q \in Panels |->
               IF q \in C /\ LoadOutcome(u[q]) = "fetch"
               THEN now.inflight[q] \cup
                        {Awaiting(silent, isAutoLoad, u[q], now.inflight[q])}
               ELSE now.inflight[q]]
    /\ ended' =
           now.ended \cup
           {[panel |-> q, outcome |-> LoadOutcome(u[q])] :
               q \in {r \in C : LoadOutcome(u[r]) # "fetch"}}

\* The panels whose $effect.pre takes up a value of urlPropagation.
Reacting(value) ==
    {q \in Panels :
        value.url # <<>> /\ value.sourceIndex # 0 /\ value.sourceIndex # q}

\* url = incrementPRNumber(data.url, index - data.sourceIndex) in each of them
UrlsAfterEffects(value) ==
    [q \in Panels |->
        IF q \in Reacting(value)
        THEN incrementPRNumber(value.url, q - value.sourceIndex)
        ELSE url[q]]

\* if (data.autoLoad) load(false, true)
AutoLoading(value) == IF value.autoLoad THEN Reacting(value) ELSE {}

\* startRefresh
StartRefresh(p) ==
    IF intervalId[p] # 0
    THEN UNCHANGED <<timers, intervalId>>
    ELSE LET id == 1 + Cardinality(timers[p])
         IN  /\ timers' = [timers EXCEPT ![p] = @ \cup {id}]
             /\ intervalId' = [intervalId EXCEPT ![p] = id]

\* stopRefresh
StopRefresh(p) ==
    IF intervalId[p] # 0
    THEN /\ timers' = [timers EXCEPT ![p] = @ \ {intervalId[p]}]
         /\ intervalId' = [intervalId EXCEPT ![p] = 0]
    ELSE UNCHANGED <<timers, intervalId>>

\* finally: loading = false; if (silent) setTimeout(..., 2000)
Finally(p, l) ==
    timeouts' = [timeouts EXCEPT ![p] = IF l.silent THEN @ + 1 ELSE @]

\* The events so far that the run is bounded in: what the user did, and the
\* firings of intervals.
Events == used

InitPanel ==
    /\ pc = "idle"
    /\ patch = <<>>
    /\ DiffLocalsInit
    /\ SplitIdle
    /\ patchType = "string"
    /\ FirstCall
    /\ GroupIdle
    /\ FetchIdle
    /\ PanelIdle

\* The user changes the text of the URL field (bind:value).
EditUrl(p) ==
    /\ Events < MaxEvents
    /\ \E u \in TypedUrls :
           /\ u # url[p]
           /\ url' = [url EXCEPT ![p] = u]
    /\ used' = used + 1
    /\ ended' = {}
    /\ started' = <<>>
    /\ propagated' = <<>>
    /\ UNCHANGED <<prData, loading, error, refreshing, intervalId, timers,
                   timeouts, inflight, panelComments, urlPropagation,
                   nonPanelVars>>

\* The debounced paste handler runs: the text is propagated without autoLoad,
\* and the effects of the other panels take it up.
HandlePaste(p) ==
    /\ Events < MaxEvents
    /\ used' = used + 1
    /\ ended' = {}
    /\ LET pastedUrl == Trim(url[p])
           value == [url |-> pastedUrl, sourceIndex |-> p, autoLoad |-> FALSE]
       IN  IF pastedUrl # <<>> /\ IsTruthyNumber(extractPRNumber(pastedUrl))
           THEN /\ urlPropagation' = value
                /\ propagated' =
                       <<[by |-> "paste", silent |-> FALSE,
                          isAutoLoad |-> FALSE, value |-> value]>>
                /\ url' = UrlsAfterEffects(value)
           ELSE /\ propagated' = <<>>
                /\ UNCHANGED <<urlPropagation, url>>
    /\ started' = <<>>
    /\ UNCHANGED <<prData, loading, error, refreshing, intervalId, timers,
                   timeouts, inflight, panelComments, nonPanelVars>>

\* The user presses Enter in the URL field: load().
UserLoad(p) ==
    /\ Events < MaxEvents
    /\ used' = used + 1
    /\ LoadCalls({p}, FALSE, FALSE, url,
                 PanelState(error, loading, refreshing, inflight, {}))
    /\ propagated' = <<>>
    /\ UNCHANGED <<url, prData, intervalId, timers, timeouts, panelComments,
                   urlPropagation, nonPanelVars>>

\* An active interval fires: load(true).
IntervalFires(p) ==
    /\ Events < MaxEvents
    /\ timers[p] # {}
    /\ used' = used + 1
    /\ LoadCalls({p}, TRUE, FALSE, url,
                 PanelState(error, loading, refreshing, inflight, {}))
    /\ propagated' = <<>>
    /\ UNCHANGED <<url, prData, intervalId, timers, timeouts, panelComments,
                   urlPropagation, nonPanelVars>>

\* fetchPR of a call of load resolves: the rest of the try block and the
\* finally block run, and then the effects a propagation has invalidated.
FetchResolves(p) ==
    \E l \in Settling(p), c \in CommentCounts :
        LET propagates == ~l.silent /\ ~l.isAutoLoad
            value == [url |-> url[p], sourceIndex |-> p, autoLoad |-> TRUE]
            calls == IF propagates THEN AutoLoading(value) ELSE {}
        IN  /\ prData' = [prData EXCEPT ![p] = Response(l.url, c)]
            /\ panelComments' = [panelComments EXCEPT ![p] = c]
            /\ IF propagates
               THEN /\ urlPropagation' = value
                    /\ propagated' =
                           <<[by |-> "load", silent |-> l.silent,
                              isAutoLoad |-> l.isAutoLoad, value |-> value]>>
                    /\ url' = UrlsAfterEffects(value)
               ELSE /\ propagated' = <<>>
                    /\ UNCHANGED <<urlPropagation, url>>
            /\ StartRefresh(p)
            /\ Finally(p, l)
            /\ LoadCalls(calls, FALSE, TRUE, url',
                         PanelState(error, [loading EXCEPT ![p] = FALSE],
                                    refreshing,
                                    [inflight EXCEPT ![p] = @ \ {l}],
                                    {[panel |-> p, outcome |-> "ok"]}))
            /\ UNCHANGED <<used, nonPanelVars>>

\* fetchPR of a call of load rejects: the catch and the finally block run.
FetchRejects(p) ==
    \E l \in Settling(p), message \in ErrorMessages :
        /\ panelComments' = [panelComments EXCEPT ![p] = 0]
        /\ StopRefresh(p)
        /\ Finally(p, l)
        /\ LoadCalls({}, FALSE, FALSE, url,
                     PanelState([error EXCEPT ![p] = message],
                                [loading EXCEPT ![p] = FALSE], refreshing,
                                [inflight EXCEPT ![p] = @ \ {l}],
                                {[panel |-> p, outcome |-> "failed"]}))
        /\ propagated' = <<>>
        /\ UNCHANGED <<url, prData, urlPropagation, used, nonPanelVars>>

\* A timeout of the finally block runs: refreshing = false.
RefreshingTimeout(p) ==
    /\ timeouts[p] > 0
    /\ timeouts' = [timeouts EXCEPT ![p] = @ - 1]
    /\ refreshing' = [refreshing EXCEPT ![p] = FALSE]
    /\ ended' = {}
    /\ started' = <<>>
    /\ propagated' = <<>>
    /\ UNCHANGED <<url, prData, loading, error, intervalId, timers, inflight,
                   panelComments, urlPropagation, used, nonPanelVars>>

NextPanel ==
    \E p \in Panels :
        \/ EditUrl(p)
        \/ HandlePaste(p)
        \/ UserLoad(p)
        \/ IntervalFires(p)
        \/ FetchResolves(p)
        \/ FetchRejects(p)
        \/ RefreshingTimeout(p)

SpecPanel == InitPanel /\ [][NextPanel]_vars


\* ------------------------------------------------------------------------
\* C29
\* ------------------------------------------------------------------------

\* A call of load that ended in the last step with an error message of its
\* own: the invalid-URL message, or that of the failed fetch.
EndedInError(e) ==
    /\ e.outcome \in {"invalid", "failed"}
    /\ error[e.panel] # ""

\* C29: each panel has at most one active refresh interval, and a panel in
\* which a call of load has just ended with an error message (invalid URL
\* or failed fetch) has no active interval.
C29_OneIntervalAndNoneAfterError ==
    /\ \A p \in Panels : Cardinality(timers[p]) <= 1
    /\ \A e \in ended : EndedInError(e) => timers[e.panel] = {}


\* ------------------------------------------------------------------------
\* C30
\* ------------------------------------------------------------------------

\* The URL u with its PR number, the digits parseURL takes for the number,
\* shifted by increment.
WithPRNumberShifted(u, increment) ==
    LET i == UrlMatchIndex(u)
    IN  IF i = 0
        THEN u
        ELSE [u EXCEPT ![i + 4] = Number(u[i + 4].n + increment)]

\* What was written to urlPropagation in the last step was written by the
\* paste handler or by a call load(false, false) whose fetch succeeded.
WrittenByPasteOrUserLoad ==
    propagated # <<>> =>
        \/ propagated[1].by = "paste"
        \/ /\ propagated[1].by = "load"
           /\ ~propagated[1].silent
           /\ ~propagated[1].isAutoLoad
           /\ [panel |-> propagated[1].value.sourceIndex, outcome |-> "ok"]
                  \in ended

\* The calls load(false, true) of the last step are those a user's load has
\* caused: at most one in each panel, none in the panel of that load, each
\* on the propagated URL with its PR number shifted by the distance of the
\* two panels.
CausedLoadsShifted ==
    \A k \in 1..Len(started) :
        started[k].isAutoLoad =>
            /\ ~started[k].silent
            /\ propagated # <<>>
            /\ propagated[1].by = "load"
            /\ started[k].panel # propagated[1].value.sourceIndex
            /\ \A j \in 1..Len(started) :
                   started[j].panel = started[k].panel => j = k
            /\ started[k].url =
                   WithPRNumberShifted(
                       propagated[1].value.url,
                       started[k].panel - propagated[1].value.sourceIndex)

\* C30: urlPropagation is written only by the paste handler and by a
\* successful load of the user, never by a propagated load or a silent
\* refresh; and such a load of the user starts at most one load in each
\* other panel, on its URL with the PR number shifted by the distance of the
\* panels, and none in its own panel.
C30_PropagationDoesNotLoop ==
    /\ [](WrittenByPasteOrUserLoad /\ CausedLoadsShifted)
    /\ [][urlPropagation' # urlPropagation =>
              /\ propagated' # <<>>
              /\ urlPropagation' = propagated'[1].value]_vars

=============================================================================
